---- MODULE Spec2Model ----
(***************************************************************************)
(* Fleet provisioning by claim followed by a device-shadow exchange, as    *)
(* implemented by the example applications of the repository:              *)
(*   - fleet_prov_simple_nvs/main/shadow_demo_main.c  (the "NVS" variant)  *)
(*   - fleet_prov_simple/main/shadow_demo_main.c      (the "simple" one)   *)
(*   - fleet_prov_by_claim_pkcs11/main/...            (the PKCS #11 one)   *)
(*                                                                         *)
(* aws_iot_demo_main is a straight-line function; it is modelled with a    *)
(* program counter, one action per collaborator call (connect, subscribe,  *)
(* publish, process loop, NVS access) together with the local code that    *)
(* follows the call.  The collaborators are nondeterministic: a call on a  *)
(* live session returns success or failure, and every call that runs the   *)
(* MQTT process loop hands the registered callback up to MaxInbound         *)
(* inbound packets.                                                        *)
(***************************************************************************)
EXTENDS Naturals, Sequences, FiniteSets, TLC

(* ------------------------------ bounds -------------------------------- *)

\* Inbound packets one run of the MQTT process loop hands to the callback.
MaxInbound == 1

(* ------------------------- program constants -------------------------- *)

FLEET_PROV_MAX_DEMO_LOOP_COUNT == 3

EXIT_SUCCESS == "EXIT_SUCCESS"
EXIT_FAILURE == "EXIT_FAILURE"

ResponseNotReceived == "ResponseNotReceived"
ResponseAccepted == "ResponseAccepted"
ResponseRejected == "ResponseRejected"

(* ------------------------------ topics -------------------------------- *)

FP_CBOR_CREATE_KEYS_ACCEPTED_TOPIC == "FP_CBOR_CREATE_KEYS_ACCEPTED_TOPIC"
FP_CBOR_CREATE_KEYS_REJECTED_TOPIC == "FP_CBOR_CREATE_KEYS_REJECTED_TOPIC"
FP_CBOR_REGISTER_ACCEPTED_TOPIC == "FP_CBOR_REGISTER_ACCEPTED_TOPIC"
FP_CBOR_REGISTER_REJECTED_TOPIC == "FP_CBOR_REGISTER_REJECTED_TOPIC"
SHADOW_TOPIC_STR_DELETE_ACC == "SHADOW_TOPIC_STR_DELETE_ACC"
SHADOW_TOPIC_STR_DELETE_REJ == "SHADOW_TOPIC_STR_DELETE_REJ"
SHADOW_TOPIC_STR_UPDATE_DELTA == "SHADOW_TOPIC_STR_UPDATE_DELTA"
SHADOW_TOPIC_STR_UPDATE_ACC == "SHADOW_TOPIC_STR_UPDATE_ACC"
SHADOW_TOPIC_STR_UPDATE_REJ == "SHADOW_TOPIC_STR_UPDATE_REJ"
SHADOW_TOPIC_STR_UPDATE_DOCS == "SHADOW_TOPIC_STR_UPDATE_DOCS"
SHADOW_TOPIC_STR_GET_ACC == "SHADOW_TOPIC_STR_GET_ACC"

\* The JSON topics of the simple variant.
FP_JSON_CREATE_KEYS_ACCEPTED_TOPIC == "FP_JSON_CREATE_KEYS_ACCEPTED_TOPIC"
FP_JSON_CREATE_KEYS_REJECTED_TOPIC == "FP_JSON_CREATE_KEYS_REJECTED_TOPIC"
FP_JSON_REGISTER_ACCEPTED_TOPIC == "FP_JSON_REGISTER_ACCEPTED_TOPIC"
FP_JSON_REGISTER_REJECTED_TOPIC == "FP_JSON_REGISTER_REJECTED_TOPIC"
FP_JSON_CREATE_KEYS_PUBLISH_TOPIC == "FP_JSON_CREATE_KEYS_PUBLISH_TOPIC"

\* The request topics the workflow publishes to.
FP_CBOR_CREATE_KEYS_PUBLISH_TOPIC == "FP_CBOR_CREATE_KEYS_PUBLISH_TOPIC"
FP_CBOR_REGISTER_PUBLISH_TOPIC == "FP_CBOR_REGISTER_PUBLISH_TOPIC"
SHADOW_TOPIC_STR_DELETE == "SHADOW_TOPIC_STR_DELETE"
SHADOW_TOPIC_STR_UPDATE == "SHADOW_TOPIC_STR_UPDATE"

\* The response topics the broker answers a request topic on.
ResponseTopics(request) ==
    CASE request = FP_CBOR_CREATE_KEYS_PUBLISH_TOPIC ->
            {FP_CBOR_CREATE_KEYS_ACCEPTED_TOPIC, FP_CBOR_CREATE_KEYS_REJECTED_TOPIC}
      [] request = FP_JSON_CREATE_KEYS_PUBLISH_TOPIC ->
            {FP_JSON_CREATE_KEYS_ACCEPTED_TOPIC, FP_JSON_CREATE_KEYS_REJECTED_TOPIC}
      [] request = FP_CBOR_REGISTER_PUBLISH_TOPIC ->
            {FP_CBOR_REGISTER_ACCEPTED_TOPIC, FP_CBOR_REGISTER_REJECTED_TOPIC}
      [] request = SHADOW_TOPIC_STR_DELETE ->
            {SHADOW_TOPIC_STR_DELETE_ACC, SHADOW_TOPIC_STR_DELETE_REJ}
      [] request = SHADOW_TOPIC_STR_UPDATE ->
            {SHADOW_TOPIC_STR_UPDATE_DELTA, SHADOW_TOPIC_STR_UPDATE_ACC,
             SHADOW_TOPIC_STR_UPDATE_REJ}
      [] OTHER -> {}

(* ----------------------------- documents ------------------------------ *)

\* Buffer sizes of the demo.
CERT_BUFFER_LENGTH == 2048
CERT_ID_BUFFER_LENGTH == 64
OWNERSHIP_TOKEN_BUFFER_LENGTH == 512
PRIV_KEY_BUFFER_LENGTH == 2048
MAX_THING_NAME_LENGTH == 128
NETWORK_BUFFER_SIZE == 4096
DEVICE_SERIAL_NUMBER_LENGTH == 4

\* The keys the CBOR parsers look up, and the keys of the RegisterThing
\* request.
KeyCertFields == <<"certificatePem", "certificateId",
                   "certificateOwnershipToken", "privateKey">>
DocFields == {"certificatePem", "certificateId", "certificateOwnershipToken",
              "privateKey", "thingName", "parameters"}

\* What a CBOR map holds under a key: nothing, a text string of len bytes
\* (tag names its bytes), a value of another type, a value cut off by the end
\* of the document, or a nested map of n entries whose entry is key: text.
NoField == [type |-> "absent", len |-> 0, tag |-> "", key |-> "", n |-> 0]
TextField(len, tag) == [type |-> "text", len |-> len, tag |-> tag, key |-> "", n |-> 0]
OtherField == [type |-> "other", len |-> 0, tag |-> "", key |-> "", n |-> 0]
TruncatedField == [type |-> "truncated", len |-> 0, tag |-> "", key |-> "", n |-> 0]
MapField(n, key, len, tag) == [type |-> "map", len |-> len, tag |-> tag, key |-> key, n |-> n]

\* A CBOR document: who wrote it (the broker, the device itself, or nobody:
\* static storage), whether cbor_parser_init accepts it, and what the map
\* holds under each key.
Doc(wf, pem, id, tok, key, thing) ==
    [origin |-> "broker",
     wellFormed |-> wf,
     f |-> [k \in DocFields |->
              CASE k = "certificatePem" -> pem
                [] k = "certificateId" -> id
                [] k = "certificateOwnershipToken" -> tok
                [] k = "privateKey" -> key
                [] k = "thingName" -> thing
                [] OTHER -> NoField]]

\* payloadBuffer as the loader leaves it: static storage, payloadLength 0.
ZeroDoc ==
    [Doc(FALSE, NoField, NoField, NoField, NoField, NoField)
        EXCEPT !.origin = "static"]
\* Responses of the sizes the service sends: a certificate id is 64
\* characters long.
FullKeyCertDoc ==
    Doc(TRUE, TextField(1200, "pem"), TextField(64, "id"), TextField(400, "tok"),
        TextField(1700, "key"), NoField)
PartialKeyCertDoc ==
    Doc(TRUE, TextField(1200, "pem"), TextField(64, "id"), TextField(400, "tok"),
        NoField, NoField)
LongKeyCertDoc ==
    Doc(TRUE, TextField(CERT_BUFFER_LENGTH + 1, "pem"), TextField(64, "id"),
        TextField(400, "tok"), TextField(1400, "key"), NoField)
\* A response longer than NETWORK_BUFFER_SIZE.
OversizeKeyCertDoc ==
    Doc(TRUE, TextField(2000, "pem"), TextField(64, "id"), TextField(400, "tok"),
        TextField(2000, "key"), NoField)
\* A response that fits the network buffer and whose ownership token is too
\* long to be sent back in a RegisterThing request of NETWORK_BUFFER_SIZE.
HugeTokenDoc ==
    Doc(TRUE, NoField, NoField, TextField(4040, "tok"), NoField, NoField)
ThingDoc == Doc(TRUE, NoField, NoField, NoField, NoField, TextField(9, "thing"))
LongThingDoc ==
    Doc(TRUE, NoField, NoField, NoField, NoField,
        TextField(MAX_THING_NAME_LENGTH + 1, "thing"))
ErrorDoc == Doc(TRUE, NoField, NoField, NoField, NoField, NoField)
MalformedDoc == Doc(FALSE, NoField, NoField, NoField, TextField(1700, "key"), NoField)
\* What a read of released memory may yield.
GarbageDoc ==
    [Doc(FALSE, OtherField, OtherField, OtherField, OtherField, OtherField)
        EXCEPT !.origin = "freed"]

\* What the broker may put into an inbound publish on a topic.
PayloadsOn(topic) ==
    CASE topic \in {FP_CBOR_CREATE_KEYS_ACCEPTED_TOPIC,
                    FP_JSON_CREATE_KEYS_ACCEPTED_TOPIC} ->
            {FullKeyCertDoc, PartialKeyCertDoc, LongKeyCertDoc, HugeTokenDoc,
             MalformedDoc, OversizeKeyCertDoc}
      [] topic = FP_CBOR_REGISTER_ACCEPTED_TOPIC ->
            {ThingDoc, LongThingDoc, ErrorDoc}
      [] OTHER -> {ErrorDoc}

(* ------------------------------ parsers ------------------------------- *)

\* An output buffer with its length variable: where its bytes come from
\* ("uninit": never written), the tag and number of the bytes copied,
\* whether a terminating NUL was written after them, and the value of the
\* length variable (the capacity before a call, the string length after).
Buffer(capacity) ==
    [src |-> "uninit", tag |-> "", len |-> 0, nul |-> FALSE, length |-> capacity]

\* A copy that insists on room for the terminating NUL, as strlcpy-style
\* copies do: a string that fills the buffer to its last byte is refused.
cbor_value_copy_text_string_terminated(field, buf) ==
    IF field.len < buf.length
    THEN [err |-> "CborNoError",
          buf |-> [src |-> "response", tag |-> field.tag, len |-> field.len,
                   nul |-> TRUE, length |-> field.len]]
    ELSE [err |-> "CborErrorOutOfMemory",
          buf |-> [buf EXCEPT !.length = field.len]]

\* cbor_value_copy_text_string( &value, buffer, &buflen, NULL ): the string
\* is copied when it is not longer than *buflen, a NUL is added when there
\* is room for it, and *buflen becomes the length of the string, copied or
\* not.
cbor_value_copy_text_string(field, buf) ==
    IF field.len <= buf.length
    THEN [err |-> "CborNoError",
          buf |-> [src |-> "response", tag |-> field.tag, len |-> field.len,
                   nul |-> field.len < buf.length, length |-> field.len]]
    ELSE [err |-> "CborErrorOutOfMemory",
          buf |-> [buf EXCEPT !.length = field.len]]

\* One field of parseKeyCertResponse / parseRegisterThingResponse, entered
\* with cborRet == CborNoError: cbor_value_map_find_value, the two type
\* checks (which only log), then cbor_value_copy_text_string.
ParseField(doc, k, buf) ==
    CASE doc.f[k].type = "truncated" -> [err |-> "CborErrorUnexpectedEOF", buf |-> buf]
      [] doc.f[k].type = "text" -> cbor_value_copy_text_string(doc.f[k], buf)
      [] OTHER -> [err |-> "CborNoError", buf |-> buf]

\* The fields of KeyCertFields from index i on, while cborRet stays
\* CborNoError: [ok |-> cborRet == CborNoError at the end,
\*               bufs |-> the four buffers].
RECURSIVE ParseFrom(_, _, _)
ParseFrom(doc, i, bufs) ==
    IF i > Len(KeyCertFields)
    THEN [ok |-> TRUE, bufs |-> bufs]
    ELSE LET k == KeyCertFields[i]
             r == ParseField(doc, k, bufs[k])
             next == [bufs EXCEPT ![k] = r.buf]
         IN  IF r.err # "CborNoError"
             THEN [ok |-> FALSE, bufs |-> next]
             ELSE ParseFrom(doc, i + 1, next)

parseKeyCertResponse(doc, bufs) ==
    IF ~doc.wellFormed
    THEN [ok |-> FALSE, bufs |-> bufs]
    ELSE ParseFrom(doc, 1, bufs)

parseRegisterThingResponse(doc, buf) ==
    IF ~doc.wellFormed
    THEN [ok |-> FALSE, buf |-> buf]
    ELSE LET r == ParseField(doc, "thingName", buf) IN
         [ok |-> r.err = "CborNoError", buf |-> r.buf]

(* ------------------------------ encoder ------------------------------- *)

\* A CBOR data item as the encoder appends it: the head of a map of n
\* entries, or a text string of n bytes (tag names the bytes).
MapItem(n) == [kind |-> "map", n |-> n, tag |-> ""]
TextItem(n, tag) == [kind |-> "text", n |-> n, tag |-> tag]

\* Bytes of the head of an item with argument n.
CborHeadSize(n) ==
    IF n < 24 THEN 1 ELSE IF n < 256 THEN 2 ELSE IF n < 65536 THEN 3 ELSE 5

CborItemSize(item) ==
    CborHeadSize(item.n) + (IF item.kind = "text" THEN item.n ELSE 0)

\* The items appended while each one fits: <<number of items in the buffer,
\* bytes used>>; an item that does not fit ends the encoding with
\* CborErrorOutOfMemory.
RECURSIVE CborAppend(_, _, _, _)
CborAppend(items, i, used, bufferLength) ==
    IF i > Len(items) THEN <<Len(items), used>>
    ELSE IF used + CborItemSize(items[i]) > bufferLength THEN <<i - 1, used>>
    ELSE CborAppend(items, i + 1, used + CborItemSize(items[i]), bufferLength)

\* A decoder of the far end, for documents of the shape the demo exchanges:
\* a map whose values are text strings or maps of one text entry.  The value
\* at index i: <<field, index after it>>, index 0 when the items run out.
CborDecodeValue(items, i) ==
    IF i > Len(items) THEN <<TruncatedField, 0>>
    ELSE IF items[i].kind = "text"
         THEN <<TextField(items[i].n, items[i].tag), i + 1>>
    ELSE IF items[i].n = 0 THEN <<MapField(0, "", 0, ""), i + 1>>
    ELSE IF items[i].n = 1 /\ i + 2 <= Len(items)
            /\ items[i + 1].kind = "text" /\ items[i + 2].kind = "text"
         THEN <<MapField(1, items[i + 1].tag, items[i + 2].n, items[i + 2].tag), i + 3>>
    ELSE <<OtherField, 0>>

\* The entries of the top-level map from index i on, left entries to read.
RECURSIVE CborDecodeEntries(_, _, _, _)
CborDecodeEntries(items, i, left, f) ==
    IF left = 0 THEN [wellFormed |-> i = Len(items) + 1, f |-> f]
    ELSE IF i = 0 \/ i > Len(items) \/ items[i].kind # "text"
         THEN [wellFormed |-> FALSE, f |-> f]
    ELSE LET v == CborDecodeValue(items, i + 1)
             key == items[i].tag
         IN  IF v[2] = 0 THEN [wellFormed |-> FALSE, f |-> f]
             ELSE CborDecodeEntries(items, v[2], left - 1,
                     IF key \in DocFields THEN [f EXCEPT ![key] = v[1]] ELSE f)

CborDecode(items) ==
    IF items = <<>> \/ items[1].kind # "map"
    THEN [wellFormed |-> FALSE, entries |-> 0, f |-> [k \in DocFields |-> NoField]]
    ELSE LET d == CborDecodeEntries(items, 2, items[1].n, [k \in DocFields |-> NoField])
         IN  [wellFormed |-> d.wellFormed, entries |-> items[1].n, f |-> d.f]

\* A request that carries the serial number at the top level, without the
\* nested parameters map.
RegisterThingItemsFlat(token, serial) ==
    <<MapItem(2),
      TextItem(25, "certificateOwnershipToken"), TextItem(token.len, token.tag),
      TextItem(12, "SerialNumber"), TextItem(serial.len, serial.tag)>>

\* The items generateRegisterThingRequest appends, in order.
RegisterThingItems(token, serial) ==
    <<MapItem(2),
      TextItem(25, "certificateOwnershipToken"), TextItem(token.len, token.tag),
      TextItem(10, "parameters"), MapItem(1),
      TextItem(12, "SerialNumber"), TextItem(serial.len, serial.tag)>>

\* generateRegisterThingRequest( pBuffer, bufferLength, token, serial,
\* pOutLengthWritten ): ok when every item fitted; items is what the buffer
\* holds afterwards, length the value stored to *pOutLengthWritten (stored is
\* false when the function leaves it alone).
generateRegisterThingRequest(bufferLength, token, serial) ==
    LET items == RegisterThingItems(token, serial)
        a == CborAppend(items, 1, 0, bufferLength)
        ok == a[1] = Len(items)
    IN  [ok |-> ok,
         items |-> SubSeq(items, 1, a[1]),
         stored |-> ok,
         length |-> IF ok THEN a[2] ELSE 0]

\* The bytes of payloadBuffer after generateRegisterThingRequest, as a
\* parser sees them.
RequestDoc(res) ==
    LET d == CborDecode(res.items) IN
    [origin |-> "device", wellFormed |-> res.ok /\ d.wellFormed, f |-> d.f]

(* ----------------------------- callbacks ------------------------------ *)

\* An inbound packet: an incoming PUBLISH on a topic, or another packet type
\* (an acknowledgement).
AckPacket == [type |-> "ACK", topic |-> "", payload |-> ErrorDoc]

\* Bytes of a text string key of a document.
KeyLength(k) ==
    CASE k = "certificatePem" -> 14
      [] k = "certificateId" -> 13
      [] k = "certificateOwnershipToken" -> 25
      [] k = "privateKey" -> 10
      [] k = "thingName" -> 9
      [] k = "parameters" -> 10
      [] k = "SerialNumber" -> 12
      [] OTHER -> 0

\* Bytes of the value a document holds under a key.
FieldLength(fld) ==
    CASE fld.type = "text" -> CborHeadSize(fld.len) + fld.len
      [] fld.type = "other" -> 1
      [] fld.type = "map" ->
            1 + (IF fld.n = 0 THEN 0
                 ELSE CborHeadSize(KeyLength(fld.key)) + KeyLength(fld.key)
                      + CborHeadSize(fld.len) + fld.len)
      [] OTHER -> 0

RECURSIVE SumLengths(_, _)
SumLengths(doc, keys) ==
    IF keys = {} THEN 0
    ELSE LET k == CHOOSE x \in keys : TRUE IN
         CborHeadSize(KeyLength(k)) + KeyLength(k) + FieldLength(doc.f[k])
             + SumLengths(doc, keys \ {k})

\* pPublishInfo->payloadLength of a publish that carries doc, and the value
\* of payloadLength once doc has been copied to payloadBuffer: the bytes of
\* the map head and of every entry.  Static storage has length 0.
PayloadLength(doc) ==
    IF doc.origin = "static" THEN 0
    ELSE LET keys == {k \in DocFields : doc.f[k].type # "absent"} IN
         1 + SumLengths(doc, keys)

\* A transport that hands over a publish of any length.
ReceivesAnyLength(pkt) == TRUE

\* The transport reads an incoming packet, headers included, into its
\* network buffer of NETWORK_BUFFER_SIZE bytes and hands a publish to the
\* callback only when the whole packet is in that buffer.
FitsNetworkBuffer(pkt) == PayloadLength(pkt.payload) <= NETWORK_BUFFER_SIZE

PublishPackets(topics) ==
    {pkt \in UNION {{[type |-> "PUBLISH", topic |-> t, payload |-> d] :
                        d \in PayloadsOn(t)} : t \in topics} :
        FitsNetworkBuffer(pkt)}

FleetProvisioningTopics ==
    {FP_CBOR_CREATE_KEYS_ACCEPTED_TOPIC, FP_CBOR_CREATE_KEYS_REJECTED_TOPIC,
     FP_CBOR_REGISTER_ACCEPTED_TOPIC, FP_CBOR_REGISTER_REJECTED_TOPIC}

ShadowTopics ==
    {SHADOW_TOPIC_STR_DELETE_ACC, SHADOW_TOPIC_STR_DELETE_REJ,
     SHADOW_TOPIC_STR_UPDATE_DELTA, SHADOW_TOPIC_STR_UPDATE_ACC,
     SHADOW_TOPIC_STR_UPDATE_REJ, SHADOW_TOPIC_STR_UPDATE_DOCS,
     SHADOW_TOPIC_STR_GET_ACC}

\* FleetProvisioning_MatchTopic: success with the API of the topic, or no match.
FleetProvisioning_MatchTopic(topic) ==
    IF topic \in FleetProvisioningTopics
    THEN [status |-> "FleetProvisioningSuccess", api |-> topic]
    ELSE [status |-> "FleetProvisioningNoMatch", api |-> "FleetProvisioningInvalid"]

\* Shadow_MatchTopicString: whether the topic is a shadow topic, and the
\* message type it stands for (named here by the topic).
Shadow_MatchTopicString(topic) ==
    IF topic \in ShadowTopics
    THEN [status |-> "SHADOW_SUCCESS", messageType |-> topic]
    ELSE [status |-> "SHADOW_FAIL", messageType |-> "ShadowMessageTypeMaxNum"]

\* A callback that copies the payload of every publish it is handed,
\* whatever its topic.
provisioningPublishCallbackCopyAll(cb, pkt) ==
    IF pkt.type # "PUBLISH" THEN cb
    ELSE [cb EXCEPT !.responseStatus =
                        IF pkt.topic \in {FP_CBOR_CREATE_KEYS_ACCEPTED_TOPIC,
                                          FP_CBOR_REGISTER_ACCEPTED_TOPIC}
                        THEN ResponseAccepted ELSE ResponseRejected,
                    !.payloadBuffer = pkt.payload]

\* A callback that takes the first response only: once responseStatus has
\* left ResponseNotReceived later packets are dropped.
provisioningPublishCallbackFirst(cb, pkt) ==
    IF pkt.type # "PUBLISH" \/ cb.responseStatus # ResponseNotReceived THEN cb
    ELSE IF pkt.topic \in {FP_CBOR_CREATE_KEYS_ACCEPTED_TOPIC,
                           FP_CBOR_REGISTER_ACCEPTED_TOPIC}
         THEN [cb EXCEPT !.responseStatus = ResponseAccepted,
                         !.payloadBuffer = pkt.payload]
    ELSE IF pkt.topic \in {FP_CBOR_CREATE_KEYS_REJECTED_TOPIC,
                           FP_CBOR_REGISTER_REJECTED_TOPIC}
         THEN [cb EXCEPT !.responseStatus = ResponseRejected]
    ELSE cb

\* provisioningPublishCallback (NVS variant) on one packet; cb holds the
\* statics the callbacks write: responseStatus, payloadBuffer (with
\* payloadLength) and eventCallbackError.
provisioningPublishCallback(cb, pkt) ==
    IF pkt.type # "PUBLISH" THEN cb
    ELSE LET m == FleetProvisioning_MatchTopic(pkt.topic) IN
         IF m.status # "FleetProvisioningSuccess" THEN cb
         ELSE IF m.api = FP_CBOR_CREATE_KEYS_ACCEPTED_TOPIC
              THEN [cb EXCEPT !.responseStatus = ResponseAccepted,
                              !.payloadBuffer = pkt.payload]
         ELSE IF m.api = FP_CBOR_CREATE_KEYS_REJECTED_TOPIC
              THEN [cb EXCEPT !.responseStatus = ResponseRejected]
         ELSE IF m.api = FP_CBOR_REGISTER_ACCEPTED_TOPIC
              THEN [cb EXCEPT !.responseStatus = ResponseAccepted,
                              !.payloadBuffer = pkt.payload]
         ELSE IF m.api = FP_CBOR_REGISTER_REJECTED_TOPIC
              THEN [cb EXCEPT !.responseStatus = ResponseRejected]
         ELSE cb

\* eventCallback of the NVS variant on one packet: the handlers of the
\* matched message types are commented out, so a matched topic changes
\* nothing; an unmatched topic sets eventCallbackError.
eventCallbackNvs(cb, pkt) ==
    IF pkt.type # "PUBLISH" THEN cb
    ELSE IF Shadow_MatchTopicString(pkt.topic).status = "SHADOW_SUCCESS" THEN cb
    ELSE [cb EXCEPT !.eventCallbackError = TRUE]

\* The process loop: the packets of inb, in order, to the callback that the
\* session was established with.
RECURSIVE ProcessLoop(_, _, _)
ProcessLoop(cb, sess, inb) ==
    IF inb = <<>> THEN cb
    ELSE ProcessLoop(IF sess = "claim"
                     THEN provisioningPublishCallback(cb, Head(inb))
                     ELSE eventCallbackNvs(cb, Head(inb)),
                     sess, Tail(inb))

SeqsUpTo(S, n) == UNION {[1..k -> S] : k \in 0..n}

(* ------------------------------- state -------------------------------- *)

VARIABLES
    pc,                     \* the statement aws_iot_demo_main is at
    returnStatus,           \* aws_iot_demo_main's local
    connectionEstablished,  \* aws_iot_demo_main's local
    provisioned,            \* global set by app_main and by the workflow
    responseStatus,         \* static, written by the callback
    payloadBuffer,          \* static buffer together with payloadLength
    eventCallbackError,     \* static, written by eventCallback
    bundle,                 \* certificate, certificateId, ownershipToken, privateKey
    thingName,              \* static buffer
    nvs,                    \* the "storage" namespace of the NVS partition
    session,                \* the MQTT session: "none", "claim", "provisioned"
    subscribed,             \* topics the broker holds a subscription for
    requested,              \* request topics published to in this session
    deleteResponseReceived, shadowDeleted,
    stateChanged, currentPowerOnState, currentVersion, clientToken,
    h                       \* what happened so far in the run (history)

mainVars == <<pc, returnStatus, connectionEstablished, provisioned>>
cbVars == <<responseStatus, payloadBuffer, eventCallbackError>>
credVars == <<bundle, thingName, nvs>>
brokerVars == <<session, subscribed, requested>>
deleteVars == <<deleteResponseReceived, shadowDeleted>>
deltaVars == <<stateChanged, currentPowerOnState, currentVersion, clientToken>>
vars == <<mainVars, cbVars, credVars, brokerVars, deleteVars, deltaVars, h>>

\* The size of the local buffer each field is copied to.
BufferCapacity(k) ==
    CASE k = "certificatePem" -> CERT_BUFFER_LENGTH
      [] k = "certificateId" -> CERT_ID_BUFFER_LENGTH
      [] k = "certificateOwnershipToken" -> OWNERSHIP_TOKEN_BUFFER_LENGTH
      [] OTHER -> PRIV_KEY_BUFFER_LENGTH

\* The four local buffers at the start of an iteration: not initialised,
\* their length variables set to the buffer sizes.
InitBundle ==
    [k \in {KeyCertFields[i] : i \in 1..Len(KeyCertFields)} |-> Buffer(BufferCapacity(k))]

\* thingName is static: zero-filled.
InitThingName ==
    [Buffer(MAX_THING_NAME_LENGTH) EXCEPT !.src = "zero", !.nul = TRUE]

NvsKeys == {"aws_cert", "aws_certID", "aws_token", "aws_key"}

\* The local buffer aws_iot_demo_main writes under an NVS key.
NvsSource(k) ==
    CASE k = "aws_cert" -> "certificatePem"
      [] k = "aws_certID" -> "certificateId"
      [] k = "aws_token" -> "certificateOwnershipToken"
      [] OTHER -> "privateKey"

\* A boot check that looks for the certificate only.
AppMainCertificateOnly(store) ==
    store["aws_cert"] # "absent"

\* app_main: provisioned is true iff aws_cert and aws_key are both read.
AppMainProvisioned(store) ==
    store["aws_cert"] # "absent" /\ store["aws_key"] # "absent"

\* The NVS partition at boot: empty, holding the four entries of an earlier
\* provisioning, or holding the certificate without the key.
BootStores ==
    {[k \in NvsKeys |-> "absent"],
     [k \in NvsKeys |-> "boot"],
     [k \in NvsKeys |-> IF k = "aws_key" THEN "absent" ELSE "boot"]}

\* Clock_GetTimeMs() % 1000000, by representatives.
ClientTokens == {123, 999999}

InitHistory ==
    [demoRunCount |-> 0,           \* iterations of the demo loop begun
     transportFailed |-> FALSE,    \* a connect, subscribe or publish failed
     callAfterFailure |-> FALSE,   \* a subscribe or publish made after that
     stepFailed |-> FALSE,         \* some executed step reported failure
     nvsWritten |-> FALSE,         \* an nvs_set_str of this run wrote an entry
     waitStatus |-> "none",        \* responseStatus when waitForResponse returned
     thingParseCalled |-> FALSE,   \* parseRegisterThingResponse was called
     thingNameParsed |-> FALSE,    \* ... on an accepted response, with a name
     markedProvisioned |-> FALSE,  \* provisioned = true was executed
     provConnectTried |-> FALSE,   \* EstablishProvisionedMqttSession was called
     desiredPublished |-> FALSE,   \* the desired state was published
     reportedPublished |-> FALSE,  \* the reported state was published
     pkcs11Initialised |-> FALSE,  \* xInitializePkcs11Session returned CKR_OK
     claimLoaded |-> FALSE,        \* loadClaimCredentials returned true
     certLoaded |-> FALSE,         \* loadCertificate returned true
     strayTopics |-> {},           \* topics outside the subscriptions that
                                   \* the broker of this run publishes on
     bootStore |-> [k \in NvsKeys |-> "absent"],  \* the NVS entries at boot
     claimSessionOpen |-> FALSE,   \* a claim session was established and
                                   \* DisconnectMqttSession not called since
     claimSessionLeaked |-> FALSE, \* ... and another one was established
     \* of the current iteration:
     provisionedAtBegin |-> FALSE, \* provisioned when the iteration began
     claimConnectTried |-> FALSE,  \* a session with the claim credentials was tried
     keysPublished |-> FALSE,      \* a CreateKeysAndCertificate request was published
     keyCertParsed |-> FALSE,      \* parseKeyCertResponse filled the four buffers
     generateFailed |-> FALSE,     \* generateRegisterThingRequest returned false
     registerPublished |-> FALSE,  \* a RegisterThing request was published
     answeredInPublish |-> FALSE,  \* the last provisioning publish had its
                                   \* response classified in its own process loop
     pendingAtPublish |-> FALSE,   \* RegisterThing was published with the
                                   \* CreateKeysAndCertificate request unanswered
     keyCertParse |-> "none",      \* what parseKeyCertResponse returned
     keyCertSource |-> "none",     \* the origin of the bytes it parsed
     generateCalled |-> FALSE,     \* generateRegisterThingRequest was called
     waited |-> FALSE]             \* waitForResponse has returned

InitCommon ==
    /\ returnStatus = EXIT_SUCCESS
    /\ connectionEstablished = FALSE
    /\ responseStatus = ResponseNotReceived
    /\ eventCallbackError = FALSE
    /\ bundle = InitBundle
    /\ thingName = InitThingName
    /\ session = "none"
    /\ subscribed = {}
    /\ requested = {}
    /\ deleteResponseReceived = FALSE
    /\ shadowDeleted = FALSE
    /\ stateChanged = FALSE
    /\ currentPowerOnState = 0
    /\ currentVersion = 0
    /\ clientToken = 0

\* The NVS variant: app_main has read the NVS partition and set provisioned.
Init ==
    /\ InitCommon
    /\ payloadBuffer = ZeroDoc
    /\ pc = "Begin"
    /\ nvs \in BootStores
    /\ provisioned = AppMainProvisioned(nvs)
    /\ h = [InitHistory EXCEPT !.bootStore = nvs]

(* ---------------------------- collaborators --------------------------- *)

\* What a transport call can return: without a session nothing can be sent.
CallOutcomes == IF session = "none" THEN {EXIT_FAILURE} ELSE {EXIT_SUCCESS, EXIT_FAILURE}

\* What the process loop can hand to the callback: acknowledgements,
\* publishes on subscribed topics that answer a request sent in this session,
\* and publishes on the stray topics of the run.
Inbound(subs, reqs) ==
    IF session = "none" THEN {<<>>}
    ELSE SeqsUpTo({AckPacket} \cup
                  PublishPackets((subs \cap UNION {ResponseTopics(q) : q \in reqs})
                                 \cup h.strayTopics),
                  MaxInbound)

\* The process loop run from responseStatus rs0 on the packets inb.
Pump(rs0, inb) ==
    LET cb == ProcessLoop([responseStatus |-> rs0,
                           payloadBuffer |-> payloadBuffer,
                           eventCallbackError |-> eventCallbackError],
                          session, inb)
    IN  /\ responseStatus' = cb.responseStatus
        /\ payloadBuffer' = cb.payloadBuffer
        /\ eventCallbackError' = cb.eventCallbackError

NoteCall(hist, kind, r) ==
    [hist EXCEPT
        !.callAfterFailure = @ \/ (hist.transportFailed /\ kind \in {"subscribe", "publish"}),
        !.transportFailed = @ \/ (r # EXIT_SUCCESS /\ kind \in {"connect", "subscribe", "publish"}),
        !.stepFailed = @ \/ r # EXIT_SUCCESS]

\* returnStatus = SubscribeToTopic( topic, ... )
SubscribeToTopic(topic) ==
    \E r \in CallOutcomes :
        LET subs == IF r = EXIT_SUCCESS THEN subscribed \cup {topic} ELSE subscribed IN
        \E inb \in Inbound(subs, requested) :
            /\ returnStatus' = r
            /\ subscribed' = subs
            /\ requested' = requested
            /\ Pump(responseStatus, inb)
            /\ h' = NoteCall(h, "subscribe", r)

\* returnStatus = UnsubscribeFromTopic( topic, ... )
UnsubscribeFromTopic(topic) ==
    \E r \in CallOutcomes :
        LET subs == IF r = EXIT_SUCCESS THEN subscribed \ {topic} ELSE subscribed IN
        \E inb \in Inbound(subscribed, requested) :
            /\ returnStatus' = r
            /\ subscribed' = subs
            /\ requested' = requested
            /\ Pump(responseStatus, inb)
            /\ h' = NoteCall(h, "unsubscribe", r)

\* The requests that expect a response on an accepted or a rejected topic.
ProvisioningRequests ==
    {FP_CBOR_CREATE_KEYS_PUBLISH_TOPIC, FP_CBOR_REGISTER_PUBLISH_TOPIC}

\* returnStatus = PublishToTopic( topic, ... ); hist is the history to extend.
PublishToTopic(topic, hist) ==
    \E r \in CallOutcomes :
        LET reqs == IF r = EXIT_SUCCESS THEN requested \cup {topic} ELSE requested IN
        \E inb \in Inbound(subscribed, reqs) :
            /\ returnStatus' = r
            /\ subscribed' = subscribed
            /\ requested' = reqs
            /\ Pump(responseStatus, inb)
            /\ h' = [NoteCall(hist, "publish", r) EXCEPT
                        !.answeredInPublish =
                            IF topic \in ProvisioningRequests
                            THEN \E i \in 1..Len(inb) :
                                    /\ inb[i].type = "PUBLISH"
                                    /\ inb[i].topic \in ResponseTopics(topic)
                            ELSE @]

\* A statement that is skipped: nothing but the program counter changes.
Skip(next) ==
    /\ pc' = next
    /\ UNCHANGED <<returnStatus, connectionEstablished, provisioned, cbVars,
                   credVars, brokerVars, deleteVars, deltaVars, h>>

\* if( returnStatus == EXIT_SUCCESS ) returnStatus = SubscribeToTopic( topic )
SubscribeStep(at, topic, next) ==
    /\ pc = at
    /\ IF returnStatus = EXIT_SUCCESS
       THEN /\ SubscribeToTopic(topic)
            /\ pc' = next
            /\ UNCHANGED <<connectionEstablished, provisioned, credVars, session,
                           deleteVars, deltaVars>>
       ELSE Skip(next)

\* if( returnStatus == EXIT_SUCCESS ) returnStatus = UnsubscribeFromTopic( topic )
UnsubscribeStep(at, topic, next) ==
    /\ pc = at
    /\ IF returnStatus = EXIT_SUCCESS
       THEN /\ UnsubscribeFromTopic(topic)
            /\ pc' = next
            /\ UNCHANGED <<connectionEstablished, provisioned, credVars, session,
                           deleteVars, deltaVars>>
       ELSE Skip(next)

\* if( returnStatus == EXIT_SUCCESS ) returnStatus = PublishToTopic( topic )
PublishStep(at, topic, next) ==
    /\ pc = at
    /\ IF returnStatus = EXIT_SUCCESS
       THEN /\ PublishToTopic(topic, h)
            /\ pc' = next
            /\ UNCHANGED <<connectionEstablished, provisioned, credVars, session,
                           deleteVars, deltaVars>>
       ELSE Skip(next)

(* ------------------- NVS variant: aws_iot_demo_main ------------------- *)

\* waitForResponse's return value for the responseStatus the process loop
\* left: returnStatus is initialised to EXIT_SUCCESS and no path assigns
\* anything else to it.
waitForResponse(status) ==
    IF status = ResponseAccepted THEN EXIT_SUCCESS ELSE EXIT_SUCCESS

\* do { : the buffer lengths are reset, then if( !provisioned ) ...
NvsBegin ==
    /\ pc = "Begin"
    /\ pc' = IF provisioned THEN "EstablishProvisioned" ELSE "EstablishClaim"
    /\ h' = [h EXCEPT !.demoRunCount = @ + 1,
                      !.provisionedAtBegin = provisioned,
                      !.claimConnectTried = FALSE,
                      !.keysPublished = FALSE,
                      !.keyCertParsed = FALSE,
                      !.generateFailed = FALSE,
                      !.registerPublished = FALSE,
                      !.answeredInPublish = FALSE,
                      !.pendingAtPublish = FALSE,
                      !.keyCertParse = "none",
                      !.keyCertSource = "none",
                      !.generateCalled = FALSE,
                      !.waited = FALSE]
    /\ UNCHANGED <<returnStatus, connectionEstablished, provisioned, cbVars,
                   credVars, brokerVars, deleteVars, deltaVars>>

\* returnStatus = EstablishMqttSession( provisioningPublishCallback )
NvsEstablishClaim ==
    /\ pc = "EstablishClaim"
    /\ \E r \in {EXIT_SUCCESS, EXIT_FAILURE} :
        /\ returnStatus' = r
        /\ connectionEstablished' = (r = EXIT_SUCCESS)
        /\ session' = IF r = EXIT_SUCCESS THEN "claim" ELSE "none"
        /\ h' = NoteCall([h EXCEPT
                            !.claimConnectTried = TRUE,
                            !.claimSessionLeaked = @ \/ (h.claimSessionOpen /\ r = EXIT_SUCCESS),
                            !.claimSessionOpen = @ \/ r = EXIT_SUCCESS],
                         "connect", r)
    /\ pc' = "SubKeysAccepted"
    /\ UNCHANGED <<provisioned, cbVars, credVars, subscribed, requested,
                   deleteVars, deltaVars>>

\* subscribeToKeyCertificateResponseTopics
NvsSubKeysAccepted ==
    SubscribeStep("SubKeysAccepted", FP_CBOR_CREATE_KEYS_ACCEPTED_TOPIC, "SubKeysRejected")
NvsSubKeysRejected ==
    SubscribeStep("SubKeysRejected", FP_CBOR_CREATE_KEYS_REJECTED_TOPIC, "PublishCreateKeys")

\* Publish to the CreateKeysAndCertificate API; the wait for its response is
\* commented out.
NvsPublishCreateKeys ==
    /\ pc = "PublishCreateKeys"
    /\ IF returnStatus = EXIT_SUCCESS
       THEN /\ PublishToTopic(FP_CBOR_CREATE_KEYS_PUBLISH_TOPIC,
                              [h EXCEPT !.keysPublished = TRUE])
            /\ pc' = "ParseKeyCert"
            /\ UNCHANGED <<connectionEstablished, provisioned, credVars, session,
                           deleteVars, deltaVars>>
       ELSE Skip("ParseKeyCert")

\* What nvs_set_str stores for a buffer, which it reads as a C string: the
\* field when the copy was terminated; when the field filled the buffer to
\* its last byte no NUL was written and the read runs past the buffer, into
\* a NUL at once or into more bytes; any bytes for a buffer never written.
NvsValues(buf) ==
    IF buf.src # "response" THEN {"uninit"}
    ELSE IF buf.nul THEN {"response"}
    ELSE {"response", "overrun"}

NvsWritten(b) ==
    {w \in [NvsKeys -> {"response", "overrun", "uninit"}] :
        \A k \in NvsKeys : w[k] \in NvsValues(b[NvsSource(k)])}

\* The credential-save block: nvs_open, four nvs_set_str, nvs_commit, each
\* of which may fail; a failure is printed and otherwise ignored.  The
\* failures considered: none, nvs_open (nothing is written), or one of the
\* four nvs_set_str calls.
NvsStore(b) ==
    {nvs} \cup NvsWritten(b) \cup
    {[k \in NvsKeys |-> IF k = bad THEN nvs[k] ELSE w[k]] :
        bad \in NvsKeys, w \in NvsWritten(b)}

\* The status a credential-save block would give if it reported a failed
\* NVS call.
SaveStatusChecked(failed) == IF failed THEN EXIT_FAILURE ELSE EXIT_SUCCESS

\* returnStatus = EXIT_SUCCESS; at the end of the credential-save block,
\* whether or not an NVS call failed.
SaveStatus(failed) == EXIT_SUCCESS

\* parseKeyCertResponse on payloadBuffer and, when it returns true, the
\* write of the four buffers to NVS.
NvsParseKeyCert ==
    /\ pc = "ParseKeyCert"
    /\ IF returnStatus = EXIT_SUCCESS
       THEN LET res == parseKeyCertResponse(payloadBuffer, bundle)
                b == res.bufs
            IN  /\ bundle' = b
                /\ IF res.ok
                   THEN /\ nvs' \in NvsStore(b)
                        /\ returnStatus' =
                                SaveStatus(\E k \in NvsKeys : nvs'[k] = nvs[k])
                        /\ h' = [h EXCEPT
                                !.keyCertParse = "true",
                                !.keyCertSource = payloadBuffer.origin,
                                !.nvsWritten = (nvs' # nvs),
                                !.keyCertParsed =
                                    /\ payloadBuffer.origin = "broker"
                                    /\ \A k \in DOMAIN b : b[k].src = "response"]
                   ELSE /\ nvs' = nvs
                        /\ returnStatus' = returnStatus
                        /\ h' = [h EXCEPT !.keyCertParse = "false",
                                          !.keyCertSource = payloadBuffer.origin,
                                          !.stepFailed = TRUE]
                /\ pc' = "UnsubKeysAccepted"
                /\ UNCHANGED <<connectionEstablished, provisioned,
                               cbVars, thingName, brokerVars, deleteVars, deltaVars>>
       ELSE Skip("UnsubKeysAccepted")

\* unsubscribeFromKeyCertificateResponseTopics
NvsUnsubKeysAccepted ==
    UnsubscribeStep("UnsubKeysAccepted", FP_CBOR_CREATE_KEYS_ACCEPTED_TOPIC, "UnsubKeysRejected")
NvsUnsubKeysRejected ==
    UnsubscribeStep("UnsubKeysRejected", FP_CBOR_CREATE_KEYS_REJECTED_TOPIC, "GenerateRegister")

\* The ownership token generateRegisterThingRequest is given: the buffer
\* ownershipToken and ownershipTokenLength bytes of it.  The length is the
\* string's when it was copied, the buffer size when nothing was looked up,
\* and the length of a string that did not fit, in which case the bytes are
\* read past the end of the buffer.
TokenArgument(buf) ==
    [len |-> buf.length,
     tag |-> IF buf.src = "response" /\ buf.len = buf.length THEN buf.tag
             ELSE IF buf.length > OWNERSHIP_TOKEN_BUFFER_LENGTH THEN "overread"
             ELSE "uninit"]

\* generateRegisterThingRequest into payloadBuffer; a false result leaves
\* returnStatus as it is.
NvsGenerateRegister ==
    /\ pc = "GenerateRegister"
    /\ IF returnStatus = EXIT_SUCCESS
       THEN LET res == generateRegisterThingRequest(
                            NETWORK_BUFFER_SIZE,
                            TokenArgument(bundle["certificateOwnershipToken"]),
                            [len |-> DEVICE_SERIAL_NUMBER_LENGTH, tag |-> "serial"])
            IN  /\ payloadBuffer' = IF res.items = <<>> THEN payloadBuffer
                                    ELSE RequestDoc(res)
                /\ h' = [h EXCEPT !.generateCalled = TRUE,
                                  !.generateFailed = ~res.ok,
                                  !.stepFailed = @ \/ ~res.ok]
            /\ pc' = "SubRegisterAccepted"
            /\ UNCHANGED <<returnStatus, connectionEstablished, provisioned,
                           responseStatus, eventCallbackError, credVars,
                           brokerVars, deleteVars, deltaVars>>
       ELSE Skip("SubRegisterAccepted")

\* subscribeToRegisterThingResponseTopics
NvsSubRegisterAccepted ==
    SubscribeStep("SubRegisterAccepted", FP_CBOR_REGISTER_ACCEPTED_TOPIC, "SubRegisterRejected")
NvsSubRegisterRejected ==
    SubscribeStep("SubRegisterRejected", FP_CBOR_REGISTER_REJECTED_TOPIC, "PublishRegister")

\* Publish the RegisterThing request.
NvsPublishRegister ==
    /\ pc = "PublishRegister"
    /\ IF returnStatus = EXIT_SUCCESS
       THEN /\ PublishToTopic(FP_CBOR_REGISTER_PUBLISH_TOPIC,
                              [h EXCEPT
                                !.registerPublished = TRUE,
                                !.pendingAtPublish =
                                    h.keysPublished /\ ~h.answeredInPublish])
            /\ pc' = "WaitRegister"
            /\ UNCHANGED <<connectionEstablished, provisioned, credVars, session,
                           deleteVars, deltaVars>>
       ELSE Skip("WaitRegister")

\* returnStatus = waitForResponse(): responseStatus is reset, the process
\* loop runs, and the value waitForResponse computes is returned.
NvsWaitRegister ==
    /\ pc = "WaitRegister"
    /\ IF returnStatus = EXIT_SUCCESS
       THEN /\ \E inb \in Inbound(subscribed, requested) :
                    Pump(ResponseNotReceived, inb)
            /\ returnStatus' = waitForResponse(responseStatus')
            /\ h' = [h EXCEPT !.waitStatus = responseStatus',
                              !.waited = TRUE,
                              !.stepFailed = @ \/ responseStatus' # ResponseAccepted]
            /\ pc' = "ParseRegister"
            /\ UNCHANGED <<connectionEstablished, provisioned, credVars,
                           brokerVars, deleteVars, deltaVars>>
       ELSE Skip("ParseRegister")

\* parseRegisterThingResponse on payloadBuffer.
NvsParseRegister ==
    /\ pc = "ParseRegister"
    /\ IF returnStatus = EXIT_SUCCESS
       THEN LET res == parseRegisterThingResponse(
                            payloadBuffer,
                            [thingName EXCEPT !.length = MAX_THING_NAME_LENGTH])
                copied == res.ok /\ payloadBuffer.f["thingName"].type = "text"
            IN
            /\ thingName' = res.buf
            /\ h' = [h EXCEPT !.thingParseCalled = TRUE,
                              !.thingNameParsed =
                                  /\ h.waitStatus = ResponseAccepted
                                  /\ payloadBuffer.origin = "broker"
                                  /\ res.ok
                                  /\ copied,
                              !.stepFailed = @ \/ ~res.ok]
            /\ pc' = "UnsubRegisterAccepted"
            /\ UNCHANGED <<returnStatus, connectionEstablished, provisioned,
                           cbVars, bundle, nvs, brokerVars, deleteVars, deltaVars>>
       ELSE Skip("UnsubRegisterAccepted")

\* unsubscribeFromRegisterThingResponseTopics
NvsUnsubRegisterAccepted ==
    UnsubscribeStep("UnsubRegisterAccepted", FP_CBOR_REGISTER_ACCEPTED_TOPIC, "UnsubRegisterRejected")
NvsUnsubRegisterRejected ==
    UnsubscribeStep("UnsubRegisterRejected", FP_CBOR_REGISTER_REJECTED_TOPIC, "DisconnectClaim")

\* if( connectionEstablished == true ) { returnStatus = DisconnectMqttSession();
\*   if( returnStatus == EXIT_SUCCESS ) { connectionEstablished = false;
\*                                        provisioned = true; } }
NvsDisconnectClaim ==
    /\ pc = "DisconnectClaim"
    /\ IF connectionEstablished
       THEN /\ \E r \in {EXIT_SUCCESS, EXIT_FAILURE} :
                /\ returnStatus' = r
                /\ connectionEstablished' = (r # EXIT_SUCCESS)
                /\ provisioned' = (provisioned \/ r = EXIT_SUCCESS)
                /\ session' = IF r = EXIT_SUCCESS THEN "none" ELSE session
                /\ subscribed' = IF r = EXIT_SUCCESS THEN {} ELSE subscribed
                /\ requested' = IF r = EXIT_SUCCESS THEN {} ELSE requested
                /\ h' = [NoteCall(h, "disconnect", r) EXCEPT
                            !.markedProvisioned = @ \/ r = EXIT_SUCCESS,
                            !.claimSessionOpen = FALSE,
                            !.answeredInPublish = FALSE,
                            !.pendingAtPublish = FALSE,
                            !.keyCertParse = "none",
                            !.keyCertSource = "none",
                            !.generateCalled = FALSE,
                            !.waited = FALSE]
            /\ pc' = "EstablishProvisioned"
            /\ UNCHANGED <<cbVars, credVars, deleteVars, deltaVars>>
       ELSE Skip("EstablishProvisioned")

\* if( returnStatus == EXIT_SUCCESS && provisioned == true )
\*     returnStatus = EstablishProvisionedMqttSession( eventCallback )
NvsEstablishProvisioned ==
    /\ pc = "EstablishProvisioned"
    /\ IF returnStatus = EXIT_SUCCESS /\ provisioned
       THEN /\ \E r \in {EXIT_SUCCESS, EXIT_FAILURE} :
                /\ returnStatus' = r
                /\ connectionEstablished' = (connectionEstablished \/ r = EXIT_SUCCESS)
                /\ session' = IF r = EXIT_SUCCESS THEN "provisioned" ELSE session
                /\ h' = [NoteCall(h, "connect", r) EXCEPT !.provConnectTried = TRUE]
            /\ pc' = "SubDeleteAccepted"
            /\ UNCHANGED <<provisioned, cbVars, credVars, subscribed, requested,
                           deleteVars, deltaVars>>
       ELSE Skip("SubDeleteAccepted")

\* The shadow delete flags are reset, then /delete/accepted is subscribed.
NvsSubDeleteAccepted ==
    /\ pc = "SubDeleteAccepted"
    /\ IF returnStatus = EXIT_SUCCESS
       THEN /\ deleteResponseReceived' = FALSE
            /\ shadowDeleted' = FALSE
            /\ SubscribeToTopic(SHADOW_TOPIC_STR_DELETE_ACC)
            /\ pc' = "SubDeleteRejected"
            /\ UNCHANGED <<connectionEstablished, provisioned, credVars, session,
                           deltaVars>>
       ELSE Skip("SubDeleteRejected")

NvsSubDeleteRejected ==
    SubscribeStep("SubDeleteRejected", SHADOW_TOPIC_STR_DELETE_REJ, "PublishDelete")

\* Publish to the shadow delete topic.
NvsPublishDelete ==
    PublishStep("PublishDelete", SHADOW_TOPIC_STR_DELETE, "UnsubDeleteAccepted")

NvsUnsubDeleteAccepted ==
    UnsubscribeStep("UnsubDeleteAccepted", SHADOW_TOPIC_STR_DELETE_ACC, "UnsubDeleteRejected")
NvsUnsubDeleteRejected ==
    UnsubscribeStep("UnsubDeleteRejected", SHADOW_TOPIC_STR_DELETE_REJ, "CheckDelete")

\* The two checks of the delete outcome: no response received, or the
\* shadow not deleted, sets returnStatus = EXIT_FAILURE.
NvsCheckDelete ==
    /\ pc = "CheckDelete"
    /\ LET notReceived == returnStatus = EXIT_SUCCESS /\ ~deleteResponseReceived
           rs1 == IF notReceived THEN EXIT_FAILURE ELSE returnStatus
           notDeleted == rs1 = EXIT_SUCCESS /\ ~shadowDeleted
       IN  /\ returnStatus' = IF notDeleted THEN EXIT_FAILURE ELSE rs1
           /\ h' = [h EXCEPT !.stepFailed = @ \/ notReceived \/ notDeleted]
    /\ pc' = "SubUpdateDelta"
    /\ UNCHANGED <<connectionEstablished, provisioned, cbVars, credVars,
                   brokerVars, deleteVars, deltaVars>>

\* returnStatus = SubscribeToTopic( /update/delta ): not guarded by returnStatus.
NvsSubUpdateDelta ==
    /\ pc = "SubUpdateDelta"
    /\ SubscribeToTopic(SHADOW_TOPIC_STR_UPDATE_DELTA)
    /\ pc' = "SubUpdateAccepted"
    /\ UNCHANGED <<connectionEstablished, provisioned, credVars, session,
                   deleteVars, deltaVars>>

NvsSubUpdateAccepted ==
    SubscribeStep("SubUpdateAccepted", SHADOW_TOPIC_STR_UPDATE_ACC, "SubUpdateRejected")
NvsSubUpdateRejected ==
    SubscribeStep("SubUpdateRejected", SHADOW_TOPIC_STR_UPDATE_REJ, "PublishDesired")

\* The desired state is published with a fresh clientToken.
NvsPublishDesired ==
    /\ pc = "PublishDesired"
    /\ IF returnStatus = EXIT_SUCCESS
       THEN /\ clientToken' \in ClientTokens
            /\ PublishToTopic(SHADOW_TOPIC_STR_UPDATE,
                              [h EXCEPT !.desiredPublished = TRUE])
            /\ pc' = "PublishReported"
            /\ UNCHANGED <<connectionEstablished, provisioned, credVars, session,
                           deleteVars, stateChanged, currentPowerOnState,
                           currentVersion>>
       ELSE Skip("PublishReported")

\* The condition the reported state is published under, unconditionally.
ReportUnconditionally == TRUE

\* if( stateChanged == true )
ReportStateChange == stateChanged

\* if( stateChanged == true ) the reported state is published with a fresh
\* clientToken.
NvsPublishReported ==
    /\ pc = "PublishReported"
    /\ IF returnStatus = EXIT_SUCCESS /\ ReportStateChange
       THEN /\ clientToken' \in ClientTokens
            /\ PublishToTopic(SHADOW_TOPIC_STR_UPDATE,
                              [h EXCEPT !.reportedPublished = TRUE])
            /\ pc' = "UnsubUpdateDelta"
            /\ UNCHANGED <<connectionEstablished, provisioned, credVars, session,
                           deleteVars, stateChanged, currentPowerOnState,
                           currentVersion>>
       ELSE Skip("UnsubUpdateDelta")

NvsUnsubUpdateDelta ==
    UnsubscribeStep("UnsubUpdateDelta", SHADOW_TOPIC_STR_UPDATE_DELTA, "UnsubUpdateAccepted")
NvsUnsubUpdateAccepted ==
    UnsubscribeStep("UnsubUpdateAccepted", SHADOW_TOPIC_STR_UPDATE_ACC, "UnsubUpdateRejected")
NvsUnsubUpdateRejected ==
    UnsubscribeStep("UnsubUpdateRejected", SHADOW_TOPIC_STR_UPDATE_REJ, "Finish")

\* if( connectionEstablished == true ) { DisconnectMqttSession(); ... }
\* } while ( 0 ); return returnStatus;
NvsFinish ==
    /\ pc = "Finish"
    /\ IF connectionEstablished
       THEN \E r \in {EXIT_SUCCESS, EXIT_FAILURE} :
                /\ session' = IF r = EXIT_SUCCESS THEN "none" ELSE session
                /\ subscribed' = IF r = EXIT_SUCCESS THEN {} ELSE subscribed
                /\ requested' = IF r = EXIT_SUCCESS THEN {} ELSE requested
       ELSE UNCHANGED brokerVars
    /\ connectionEstablished' = FALSE
    /\ pc' = "Returned"
    /\ UNCHANGED <<returnStatus, provisioned, cbVars, credVars, deleteVars,
                   deltaVars, h>>

Next ==
    \/ NvsBegin
    \/ NvsEstablishClaim
    \/ NvsSubKeysAccepted
    \/ NvsSubKeysRejected
    \/ NvsPublishCreateKeys
    \/ NvsParseKeyCert
    \/ NvsUnsubKeysAccepted
    \/ NvsUnsubKeysRejected
    \/ NvsGenerateRegister
    \/ NvsSubRegisterAccepted
    \/ NvsSubRegisterRejected
    \/ NvsPublishRegister
    \/ NvsWaitRegister
    \/ NvsParseRegister
    \/ NvsUnsubRegisterAccepted
    \/ NvsUnsubRegisterRejected
    \/ NvsDisconnectClaim
    \/ NvsEstablishProvisioned
    \/ NvsSubDeleteAccepted
    \/ NvsSubDeleteRejected
    \/ NvsPublishDelete
    \/ NvsUnsubDeleteAccepted
    \/ NvsUnsubDeleteRejected
    \/ NvsCheckDelete
    \/ NvsSubUpdateDelta
    \/ NvsSubUpdateAccepted
    \/ NvsSubUpdateRejected
    \/ NvsPublishDesired
    \/ NvsPublishReported
    \/ NvsUnsubUpdateDelta
    \/ NvsUnsubUpdateAccepted
    \/ NvsUnsubUpdateRejected
    \/ NvsFinish

Spec == Init /\ [][Next]_vars

\* The NVS variant booted with stored credentials, on a broker that also
\* delivers a publish on a topic that is no shadow topic.
InitStray ==
    /\ InitCommon
    /\ payloadBuffer = ZeroDoc
    /\ pc = "Begin"
    /\ nvs = [k \in NvsKeys |-> "boot"]
    /\ provisioned = AppMainProvisioned(nvs)
    /\ h = [InitHistory EXCEPT !.bootStore = nvs,
                               !.strayTopics = {FP_CBOR_REGISTER_REJECTED_TOPIC}]

NextStray ==
    \/ NvsBegin
    \/ NvsEstablishProvisioned
    \/ NvsSubDeleteAccepted
    \/ NvsSubDeleteRejected
    \/ NvsPublishDelete
    \/ NvsUnsubDeleteAccepted
    \/ NvsUnsubDeleteRejected
    \/ NvsCheckDelete
    \/ NvsSubUpdateDelta
    \/ NvsSubUpdateAccepted
    \/ NvsSubUpdateRejected
    \/ NvsPublishDesired
    \/ NvsPublishReported
    \/ NvsUnsubUpdateDelta
    \/ NvsUnsubUpdateAccepted
    \/ NvsUnsubUpdateRejected
    \/ NvsFinish

SpecStray == InitStray /\ [][NextStray]_vars

\* The demo loops of the simple and PKCS #11 variants have no bound of their
\* own; the model stops following them after this many iterations.
MaxDemoRuns == 5

(* ----------------- PKCS #11 variant: aws_iot_demo_main ---------------- *)

\* do { : the buffer lengths are set to the capacities, then
\* xInitializePkcs11Session and, if it returned CKR_OK, loadClaimCredentials;
\* the outcome of either is logged and kept in locals that nothing reads.
Pkcs11Begin ==
    /\ pc = "Pkcs11Begin"
    /\ h.demoRunCount < MaxDemoRuns
    /\ bundle' = [k \in DOMAIN bundle |->
                    [bundle[k] EXCEPT !.length = BufferCapacity(k)]]
    /\ \E initialised \in BOOLEAN, loaded \in BOOLEAN :
        h' = [h EXCEPT !.demoRunCount = @ + 1,
                       !.claimConnectTried = FALSE,
                       !.pkcs11Initialised = initialised,
                       !.claimLoaded = initialised /\ loaded,
                       !.certLoaded = FALSE]
    /\ pc' = "Pkcs11Establish"
    /\ UNCHANGED <<returnStatus, connectionEstablished, provisioned, cbVars,
                   thingName, nvs, brokerVars, deleteVars, deltaVars>>

\* returnStatus = EstablishMqttSession( provisioningPublishCallback )
Pkcs11Establish ==
    /\ pc = "Pkcs11Establish"
    /\ \E r \in {EXIT_SUCCESS, EXIT_FAILURE} :
        /\ returnStatus' = r
        /\ connectionEstablished' = (connectionEstablished \/ r = EXIT_SUCCESS)
        /\ session' = IF r = EXIT_SUCCESS THEN "claim" ELSE session
        /\ subscribed' = IF r = EXIT_SUCCESS THEN {} ELSE subscribed
        /\ requested' = IF r = EXIT_SUCCESS THEN {} ELSE requested
        /\ h' = NoteCall([h EXCEPT !.claimConnectTried = TRUE], "connect", r)
    /\ pc' = "Pkcs11SubKeysAccepted"
    /\ UNCHANGED <<provisioned, cbVars, credVars, deleteVars, deltaVars>>

\* subscribeToKeyCertificateResponseTopics
Pkcs11SubKeysAccepted ==
    SubscribeStep("Pkcs11SubKeysAccepted", FP_CBOR_CREATE_KEYS_ACCEPTED_TOPIC,
                  "Pkcs11SubKeysRejected")
Pkcs11SubKeysRejected ==
    SubscribeStep("Pkcs11SubKeysRejected", FP_CBOR_CREATE_KEYS_REJECTED_TOPIC,
                  "Pkcs11PublishCreateKeys")

\* Publish to the CreateKeysAndCertificate API; the waitForResponse call
\* that followed is commented out.
Pkcs11PublishCreateKeys ==
    PublishStep("Pkcs11PublishCreateKeys", FP_CBOR_CREATE_KEYS_PUBLISH_TOPIC,
                "Pkcs11ParseKeyCert")

\* parseStatus = parseKeyCertResponse( payloadBuffer, ... );
\* if( parseStatus == true ) returnStatus = EXIT_SUCCESS;
Pkcs11ParseKeyCert ==
    /\ pc = "Pkcs11ParseKeyCert"
    /\ IF returnStatus = EXIT_SUCCESS
       THEN LET res == parseKeyCertResponse(payloadBuffer, bundle) IN
            /\ bundle' = res.bufs
            /\ returnStatus' = IF res.ok THEN EXIT_SUCCESS ELSE returnStatus
            /\ h' = [h EXCEPT !.stepFailed = @ \/ ~res.ok]
            /\ pc' = "Pkcs11LoadCertificate"
            /\ UNCHANGED <<connectionEstablished, provisioned, cbVars, thingName,
                           nvs, brokerVars, deleteVars, deltaVars>>
       ELSE Skip("Pkcs11LoadCertificate")

\* certStatus = loadCertificate( p11Session, certificate, "Device Cert",
\* certificateLength ); if( certStatus == true ) returnStatus = EXIT_SUCCESS;
\* } while ( returnStatus != EXIT_SUCCESS ); return returnStatus;
Pkcs11LoadCertificate ==
    /\ pc = "Pkcs11LoadCertificate"
    /\ IF returnStatus = EXIT_SUCCESS
       THEN \E certStatus \in BOOLEAN :
            /\ returnStatus' = IF certStatus THEN EXIT_SUCCESS ELSE returnStatus
            /\ h' = [h EXCEPT !.certLoaded = certStatus,
                              !.stepFailed = @ \/ ~certStatus]
       ELSE UNCHANGED <<returnStatus, h>>
    /\ pc' = IF returnStatus' # EXIT_SUCCESS THEN "Pkcs11Begin" ELSE "Returned"
    /\ UNCHANGED <<connectionEstablished, provisioned, cbVars, credVars,
                   brokerVars, deleteVars, deltaVars>>

InitPkcs11 ==
    /\ InitCommon
    /\ payloadBuffer = ZeroDoc
    /\ pc = "Pkcs11Begin"
    /\ nvs = [k \in NvsKeys |-> "absent"]
    /\ provisioned = FALSE
    /\ h = InitHistory

NextPkcs11 ==
    \/ Pkcs11Begin
    \/ Pkcs11Establish
    \/ Pkcs11SubKeysAccepted
    \/ Pkcs11SubKeysRejected
    \/ Pkcs11PublishCreateKeys
    \/ Pkcs11ParseKeyCert
    \/ Pkcs11LoadCertificate

SpecPkcs11 == InitPkcs11 /\ [][NextPkcs11]_vars

(* ------------------ simple variant: aws_iot_demo_main ----------------- *)

\* provisioningPublishCallback of the simple variant on one packet.  It is
\* registered as the MQTT event callback although its second parameter is a
\* MQTTPublishInfo_t *, so the topic it matches is read through a pointer to
\* another type, and on an accepted or rejected topic it releases the
\* payload with free() before copying from it: which branch runs and what
\* the memcpy reads are undefined.  The outcomes: no branch, a rejected
\* branch, an accepted branch copying the payload or what replaced it.
provisioningPublishCallbackSimple(cb, pkt) ==
    {cb,
     [cb EXCEPT !.responseStatus = ResponseRejected],
     [cb EXCEPT !.responseStatus = ResponseAccepted, !.payloadBuffer = pkt.payload],
     [cb EXCEPT !.responseStatus = ResponseAccepted, !.payloadBuffer = GarbageDoc]}

\* The process loop of the simple variant: the set of states the callback
\* can leave after the packets of inb.
RECURSIVE ProcessLoopSimple(_, _)
ProcessLoopSimple(cbs, inb) ==
    IF inb = <<>> THEN cbs
    ELSE ProcessLoopSimple(
            UNION {provisioningPublishCallbackSimple(cb, Head(inb)) : cb \in cbs},
            Tail(inb))

PumpSimple(rs0, inb) ==
    \E cb \in ProcessLoopSimple({[responseStatus |-> rs0,
                                  payloadBuffer |-> payloadBuffer,
                                  eventCallbackError |-> eventCallbackError]}, inb) :
        /\ responseStatus' = cb.responseStatus
        /\ payloadBuffer' = cb.payloadBuffer
        /\ eventCallbackError' = cb.eventCallbackError

simpleFrame == <<provisioned, credVars, deleteVars, deltaVars>>

\* do { : one more iteration of the demo loop.
SimpleBegin ==
    /\ pc = "SimpleBegin"
    /\ h.demoRunCount < MaxDemoRuns
    /\ h' = [h EXCEPT !.demoRunCount = @ + 1]
    /\ pc' = "SimpleEstablish"
    /\ UNCHANGED <<returnStatus, connectionEstablished, cbVars, brokerVars, simpleFrame>>

\* returnStatus = EstablishMqttSession( provisioningPublishCallback )
SimpleEstablish ==
    /\ pc = "SimpleEstablish"
    /\ \E r \in {EXIT_SUCCESS, EXIT_FAILURE} :
        /\ returnStatus' = r
        /\ connectionEstablished' = (connectionEstablished \/ r = EXIT_SUCCESS)
        /\ session' = IF r = EXIT_SUCCESS THEN "claim" ELSE session
        /\ subscribed' = IF r = EXIT_SUCCESS THEN {} ELSE subscribed
        /\ requested' = IF r = EXIT_SUCCESS THEN {} ELSE requested
        /\ h' = NoteCall([h EXCEPT
                            !.claimSessionLeaked = @ \/ (h.claimSessionOpen /\ r = EXIT_SUCCESS),
                            !.claimSessionOpen = @ \/ r = EXIT_SUCCESS],
                         "connect", r)
    /\ pc' = "SimpleSubKeysAccepted"
    /\ UNCHANGED <<cbVars, simpleFrame>>

\* if( returnStatus == EXIT_SUCCESS ) returnStatus = SubscribeToTopic( topic )
SimpleSubscribeStep(at, topic, next) ==
    /\ pc = at
    /\ pc' = next
    /\ IF returnStatus = EXIT_SUCCESS
       THEN \E r \in CallOutcomes :
              LET subs == IF r = EXIT_SUCCESS THEN subscribed \cup {topic} ELSE subscribed IN
              \E inb \in Inbound(subs, requested) :
                /\ returnStatus' = r
                /\ subscribed' = subs
                /\ PumpSimple(responseStatus, inb)
                /\ h' = NoteCall(h, "subscribe", r)
                /\ UNCHANGED <<connectionEstablished, session, requested, simpleFrame>>
       ELSE UNCHANGED <<returnStatus, connectionEstablished, cbVars, brokerVars,
                        simpleFrame, h>>

SimpleSubKeysAccepted ==
    SimpleSubscribeStep("SimpleSubKeysAccepted", FP_JSON_CREATE_KEYS_ACCEPTED_TOPIC,
                        "SimpleSubKeysRejected")
SimpleSubKeysRejected ==
    SimpleSubscribeStep("SimpleSubKeysRejected", FP_JSON_CREATE_KEYS_REJECTED_TOPIC,
                        "SimpleSubRegisterAccepted")
SimpleSubRegisterAccepted ==
    SimpleSubscribeStep("SimpleSubRegisterAccepted", FP_JSON_REGISTER_ACCEPTED_TOPIC,
                        "SimpleSubRegisterRejected")
SimpleSubRegisterRejected ==
    SimpleSubscribeStep("SimpleSubRegisterRejected", FP_JSON_REGISTER_REJECTED_TOPIC,
                        "SimplePublishCreateKeys")

\* Publish to the CreateKeysAndCertificate API.
SimplePublishCreateKeys ==
    /\ pc = "SimplePublishCreateKeys"
    /\ pc' = "SimpleWait"
    /\ IF returnStatus = EXIT_SUCCESS
       THEN \E r \in CallOutcomes :
              LET reqs == IF r = EXIT_SUCCESS
                          THEN requested \cup {FP_JSON_CREATE_KEYS_PUBLISH_TOPIC}
                          ELSE requested IN
              \E inb \in Inbound(subscribed, reqs) :
                /\ returnStatus' = r
                /\ requested' = reqs
                /\ PumpSimple(responseStatus, inb)
                /\ h' = NoteCall(h, "publish", r)
                /\ UNCHANGED <<connectionEstablished, session, subscribed, simpleFrame>>
       ELSE UNCHANGED <<returnStatus, connectionEstablished, cbVars, brokerVars,
                        simpleFrame, h>>

\* returnStatus = waitForResponse()
SimpleWait ==
    /\ pc = "SimpleWait"
    /\ pc' = "SimpleDisconnect"
    /\ IF returnStatus = EXIT_SUCCESS
       THEN /\ \E inb \in Inbound(subscribed, requested) :
                    PumpSimple(ResponseNotReceived, inb)
            /\ returnStatus' = waitForResponse(responseStatus')
            /\ h' = [h EXCEPT !.waitStatus = responseStatus',
                              !.waited = TRUE,
                              !.stepFailed = @ \/ responseStatus' # ResponseAccepted]
            /\ UNCHANGED <<connectionEstablished, brokerVars, simpleFrame>>
       ELSE UNCHANGED <<returnStatus, connectionEstablished, cbVars, brokerVars,
                        simpleFrame, h>>

\* if( returnStatus == EXIT_FAILURE ) log; else returnStatus = DisconnectMqttSession();
\* if( eventCallbackError == true ) returnStatus = EXIT_FAILURE;
\* } while( returnStatus != EXIT_SUCCESS );
SimpleDisconnect ==
    /\ pc = "SimpleDisconnect"
    /\ \E r \in IF returnStatus = EXIT_FAILURE THEN {EXIT_FAILURE}
                ELSE {EXIT_SUCCESS, EXIT_FAILURE} :
        LET disconnected == returnStatus # EXIT_FAILURE /\ r = EXIT_SUCCESS
            rs == IF eventCallbackError THEN EXIT_FAILURE ELSE r
        IN  /\ returnStatus' = rs
            /\ session' = IF disconnected THEN "none" ELSE session
            /\ subscribed' = IF disconnected THEN {} ELSE subscribed
            /\ requested' = IF disconnected THEN {} ELSE requested
            /\ h' = IF returnStatus = EXIT_FAILURE THEN h
                    ELSE [NoteCall(h, "disconnect", r) EXCEPT !.claimSessionOpen = FALSE]
            /\ pc' = IF rs # EXIT_SUCCESS THEN "SimpleBegin" ELSE "Returned"
    /\ UNCHANGED <<connectionEstablished, cbVars, simpleFrame>>

InitSimple ==
    /\ InitCommon
    /\ payloadBuffer = ZeroDoc
    /\ pc = "SimpleBegin"
    /\ nvs = [k \in NvsKeys |-> "absent"]
    /\ provisioned = FALSE
    /\ h = InitHistory

NextSimple ==
    \/ SimpleBegin
    \/ SimpleEstablish
    \/ SimpleSubKeysAccepted
    \/ SimpleSubKeysRejected
    \/ SimpleSubRegisterAccepted
    \/ SimpleSubRegisterRejected
    \/ SimplePublishCreateKeys
    \/ SimpleWait
    \/ SimpleDisconnect

SpecSimple == InitSimple /\ [][NextSimple]_vars

(* ------------- simple variant: eventCallback and its handlers ---------- *)

\* Versions the shadow service stamps on /update/delta documents.
MaxVersion == 3

\* A JSON value: a number, a text that is not a number (n is the value of
\* its leading decimal digits, 0 without any: "abc", "123abc"), or no value.
Num(n) == [kind |-> "number", n |-> n]
TextFrom(n) == [kind |-> "text", n |-> n]
Text == TextFrom(0)
Absent == [kind |-> "absent", n |-> 0]
\* The initial value of the handlers' outValue pointers.
NullValue == [kind |-> "null", n |-> 0]

\* A JSON payload: whether JSON_Validate accepts it, and the value under each
\* key the handlers search for.
JsonDoc(valid, version, powerOn, code, token) ==
    [valid |-> valid, version |-> version, powerOn |-> powerOn,
     code |-> code, clientToken |-> token]

DeltaDocs ==
    {JsonDoc(v, ver, p, Absent, Absent) :
        v \in BOOLEAN, ver \in {Absent} \cup {Num(n) : n \in 0..MaxVersion},
        p \in {Absent, Num(0), Num(1), Text}}
DeleteRejectedDocs ==
    {JsonDoc(v, Absent, Absent, c, Absent) :
        v \in BOOLEAN, c \in {Absent, Num(404), Num(500), Text}}
UpdateAcceptedDocs ==
    {JsonDoc(v, Absent, Absent, Absent, t) :
        v \in BOOLEAN,
        t \in {Absent, Text, TextFrom(123)} \cup {Num(n) : n \in ClientTokens}}
PlainDoc == JsonDoc(TRUE, Absent, Absent, Absent, Absent)

JSON_Validate(doc) == IF doc.valid THEN "JSONSuccess" ELSE "JSONIllegalDocument"

\* JSON_Search: the value under the key; outValue is left as it was when
\* the key is not found.
JSON_Search(doc, key, outValue) ==
    IF doc[key].kind # "absent"
    THEN [result |-> "JSONSuccess", outValue |-> doc[key]]
    ELSE [result |-> "JSONNotFound", outValue |-> outValue]

\* strtoul( value, NULL, 10 ): the leading decimal digits, 0 without any.
strtoul(value) == IF value.kind \in {"number", "text"} THEN value.n ELSE 0

\* The statics the event callback and its handlers read and write.
ShadowStatics ==
    [deleteResponseReceived |-> deleteResponseReceived,
     shadowDeleted |-> shadowDeleted,
     stateChanged |-> stateChanged,
     currentPowerOnState |-> currentPowerOnState,
     currentVersion |-> currentVersion,
     clientToken |-> clientToken,
     eventCallbackError |-> eventCallbackError,
     published |-> {}]      \* topics passed to PublishToTopic by the callback

\* deleteRejectedHandler with the test of the error code left out.
deleteRejectedHandlerAnyCode(st, doc) ==
    LET r1 == IF JSON_Validate(doc) = "JSONSuccess"
              THEN JSON_Search(doc, "code", NullValue)
              ELSE [result |-> JSON_Validate(doc), outValue |-> NullValue]
    IN  IF r1.result = "JSONSuccess" THEN [st EXCEPT !.shadowDeleted = TRUE] ELSE st

deleteRejectedHandler(st, doc) ==
    LET r1 == IF JSON_Validate(doc) = "JSONSuccess"
              THEN JSON_Search(doc, "code", NullValue)
              ELSE [result |-> JSON_Validate(doc), outValue |-> NullValue]
        errorCode == IF r1.result = "JSONSuccess" THEN strtoul(r1.outValue) ELSE 0
    IN  IF errorCode = 404 THEN [st EXCEPT !.shadowDeleted = TRUE] ELSE st

\* updateDeltaHandler.  result and outValue are reused from the search for
\* "version" by the test that follows the search for "state.powerOn": when
\* the version is not newer, they still hold the outcome of the first search.
updateDeltaHandler(st, doc) ==
    LET r1 == IF JSON_Validate(doc) = "JSONSuccess"
              THEN JSON_Search(doc, "version", NullValue)
              ELSE [result |-> JSON_Validate(doc), outValue |-> NullValue]
        err1 == JSON_Validate(doc) # "JSONSuccess" \/ r1.result # "JSONSuccess"
        version == IF r1.result = "JSONSuccess" THEN strtoul(r1.outValue) ELSE 0
        newer == version > st.currentVersion
        r2 == IF newer THEN JSON_Search(doc, "powerOn", r1.outValue) ELSE r1
        st1 == [st EXCEPT !.eventCallbackError = @ \/ err1,
                          !.currentVersion = IF newer THEN version ELSE @]
        newState == strtoul(r2.outValue)
    IN  IF r2.result = "JSONSuccess"
        THEN IF newState # st1.currentPowerOnState
             THEN [st1 EXCEPT !.currentPowerOnState = newState, !.stateChanged = TRUE]
             ELSE st1
        ELSE [st1 EXCEPT !.eventCallbackError = TRUE]

\* updateAcceptedHandler: the comparison of the received token with
\* clientToken only chooses a log line.
updateAcceptedHandler(st, doc) ==
    LET r1 == IF JSON_Validate(doc) = "JSONSuccess"
              THEN JSON_Search(doc, "clientToken", NullValue)
              ELSE [result |-> JSON_Validate(doc), outValue |-> NullValue]
        err1 == JSON_Validate(doc) # "JSONSuccess"
    IN  IF r1.result = "JSONSuccess" THEN [st EXCEPT !.eventCallbackError = @ \/ err1]
        ELSE [st EXCEPT !.eventCallbackError = TRUE]

\* The line updateAcceptedHandler logs about the received token: LogInfo
\* "... has been accepted" when receivedToken == clientToken, LogWarn "not
\* identical" otherwise, neither when no token was found.
updateAcceptedLog(st, doc) ==
    LET r1 == IF JSON_Validate(doc) = "JSONSuccess"
              THEN JSON_Search(doc, "clientToken", NullValue)
              ELSE [result |-> JSON_Validate(doc), outValue |-> NullValue]
        receivedToken == strtoul(r1.outValue)
    IN  IF r1.result # "JSONSuccess" THEN "none"
        ELSE IF receivedToken = st.clientToken THEN "accepted" ELSE "mismatch"

\* A callback that reports a change itself, by a publish to the update
\* topic from inside the callback.
eventCallbackReporting(st, pkt) ==
    IF pkt.type = "PUBLISH" /\ pkt.topic = SHADOW_TOPIC_STR_UPDATE_DELTA
    THEN [st EXCEPT !.published = @ \cup {SHADOW_TOPIC_STR_UPDATE}]
    ELSE st

\* eventCallback of the simple variant on one packet.
eventCallback(st, pkt) ==
    IF pkt.type # "PUBLISH" THEN st
    ELSE LET m == Shadow_MatchTopicString(pkt.topic) IN
         IF m.status # "SHADOW_SUCCESS" THEN [st EXCEPT !.eventCallbackError = TRUE]
         ELSE IF m.messageType = SHADOW_TOPIC_STR_UPDATE_DELTA
              THEN updateDeltaHandler(st, pkt.payload)
         ELSE IF m.messageType = SHADOW_TOPIC_STR_UPDATE_ACC
              THEN updateAcceptedHandler(st, pkt.payload)
         ELSE IF m.messageType = SHADOW_TOPIC_STR_UPDATE_DOCS THEN st
         ELSE IF m.messageType = SHADOW_TOPIC_STR_UPDATE_REJ THEN st
         ELSE IF m.messageType = SHADOW_TOPIC_STR_DELETE_ACC
              THEN [st EXCEPT !.shadowDeleted = TRUE, !.deleteResponseReceived = TRUE]
         ELSE IF m.messageType = SHADOW_TOPIC_STR_DELETE_REJ
              THEN [deleteRejectedHandler(st, pkt.payload)
                        EXCEPT !.deleteResponseReceived = TRUE]
         ELSE st

\* The packets the MQTT stack can hand to eventCallback.
ShadowPackets ==
    {[type |-> "ACK", topic |-> "", payload |-> PlainDoc]}
    \cup {[type |-> "PUBLISH", topic |-> SHADOW_TOPIC_STR_UPDATE_DELTA, payload |-> d] :
            d \in DeltaDocs}
    \cup {[type |-> "PUBLISH", topic |-> SHADOW_TOPIC_STR_DELETE_REJ, payload |-> d] :
            d \in DeleteRejectedDocs}
    \cup {[type |-> "PUBLISH", topic |-> SHADOW_TOPIC_STR_UPDATE_ACC, payload |-> d] :
            d \in UpdateAcceptedDocs}
    \cup {[type |-> "PUBLISH", topic |-> t, payload |-> PlainDoc] :
            t \in {SHADOW_TOPIC_STR_DELETE_ACC, SHADOW_TOPIC_STR_UPDATE_REJ,
                   SHADOW_TOPIC_STR_UPDATE_DOCS, SHADOW_TOPIC_STR_GET_ACC,
                   FP_JSON_REGISTER_ACCEPTED_TOPIC}}

\* A delta document whose version is newer and whose powerOn is found.
DeltaApplied(st, pkt) ==
    /\ pkt.type = "PUBLISH"
    /\ pkt.topic = SHADOW_TOPIC_STR_UPDATE_DELTA
    /\ pkt.payload.valid
    /\ pkt.payload.version.kind = "number"
    /\ pkt.payload.version.n > st.currentVersion
    /\ pkt.payload.powerOn.kind # "absent"

\* The MQTT stack calls eventCallback with one packet.
ShadowDeliver ==
    /\ pc = "Shadow"
    /\ \E pkt \in ShadowPackets :
        LET st == eventCallback(ShadowStatics, pkt) IN
        /\ deleteResponseReceived' = st.deleteResponseReceived
        /\ shadowDeleted' = st.shadowDeleted
        /\ stateChanged' = st.stateChanged
        /\ currentPowerOnState' = st.currentPowerOnState
        /\ currentVersion' = st.currentVersion
        /\ eventCallbackError' = st.eventCallbackError
        /\ requested' = requested \cup st.published
        /\ h' = [last |-> pkt,
                 log |-> IF pkt.type = "PUBLISH" /\ pkt.topic = SHADOW_TOPIC_STR_UPDATE_ACC
                         THEN updateAcceptedLog(ShadowStatics, pkt.payload)
                         ELSE "none",
                 pre |-> [shadowDeleted |-> shadowDeleted,
                          eventCallbackError |-> eventCallbackError,
                          stateChanged |-> stateChanged,
                          currentPowerOnState |-> currentPowerOnState,
                          highestApplied |-> h.highestApplied],
                 highestApplied |-> IF DeltaApplied(ShadowStatics, pkt)
                                    THEN pkt.payload.version.n ELSE h.highestApplied]
    /\ UNCHANGED <<mainVars, responseStatus, payloadBuffer, credVars, session,
                   subscribed, clientToken>>

InitShadow ==
    /\ returnStatus = EXIT_SUCCESS
    /\ connectionEstablished = TRUE
    /\ responseStatus = ResponseNotReceived
    /\ payloadBuffer = ZeroDoc
    /\ eventCallbackError = FALSE
    /\ bundle = InitBundle
    /\ thingName = InitThingName
    /\ session = "provisioned"
    /\ subscribed = {}
    /\ requested = {}
    /\ deleteResponseReceived = FALSE
    /\ shadowDeleted = FALSE
    /\ stateChanged = FALSE
    /\ currentPowerOnState = 0
    /\ currentVersion = 0
    /\ clientToken \in {0} \cup ClientTokens
    /\ pc = "Shadow"
    /\ nvs = [k \in NvsKeys |-> "absent"]
    /\ provisioned = TRUE
    /\ h = [last |-> [type |-> "none", topic |-> "", payload |-> PlainDoc],
            log |-> "none",
            pre |-> [shadowDeleted |-> FALSE, eventCallbackError |-> FALSE,
                     stateChanged |-> FALSE,
                     currentPowerOnState |-> 0, highestApplied |-> 0],
            highestApplied |-> 0]

NextShadow == ShadowDeliver

SpecShadow == InitShadow /\ [][NextShadow]_vars

(* --------------- the serializer's functions, one call each -------------- *)

\* The longest serial number a request is generated for.
MaxSerialLength == 16

\* String lengths around a buffer of cap bytes.
CodecLengths(cap) == {0, 1, cap, cap + 1}

\* What a response may hold under key k, for an output buffer of cap bytes.
CodecFields(k, cap) ==
    {NoField, OtherField, TruncatedField} \cup {TextField(n, k) : n \in CodecLengths(cap)}

CodecKeyCertDocs ==
    {Doc(wf, pem, id, tok, key, NoField) :
        wf \in BOOLEAN,
        pem \in CodecFields("certificatePem", CERT_BUFFER_LENGTH),
        id \in CodecFields("certificateId", CERT_ID_BUFFER_LENGTH),
        tok \in CodecFields("certificateOwnershipToken", OWNERSHIP_TOKEN_BUFFER_LENGTH),
        key \in CodecFields("privateKey", PRIV_KEY_BUFFER_LENGTH)}

CodecThingDocs ==
    {Doc(wf, NoField, NoField, NoField, NoField, thing) :
        wf \in BOOLEAN, thing \in CodecFields("thingName", MAX_THING_NAME_LENGTH)}

\* Token and serial number lengths on both sides of each CBOR head size, and
\* destination sizes from nothing to the network buffer.
CodecTokenLengths == {0, 1, 23, 24, 255, 256, OWNERSHIP_TOKEN_BUFFER_LENGTH}
CodecSerialLengths == {0, 1, DEVICE_SERIAL_NUMBER_LENGTH, MaxSerialLength}
CodecBufferLengths == {0, 1, 60, 100, 600, NETWORK_BUFFER_SIZE}

\* A pending call of one of the three functions with its arguments;
\* lengthBefore is *pOutLengthWritten at the call.
CodecCall(name, doc, tokenLength, serialLength, bufferLength, lengthBefore) ==
    [call |-> name, returned |-> FALSE, ok |-> FALSE, doc |-> doc,
     token |-> [len |-> tokenLength, tag |-> "tok"],
     serial |-> [len |-> serialLength, tag |-> "serial"],
     bufferLength |-> bufferLength, lengthBefore |-> lengthBefore,
     length |-> lengthBefore, decoded |-> CborDecode(<<>>)]

CodecCalls ==
    {CodecCall("parseKeyCertResponse", d, 0, 0, 0, 0) : d \in CodecKeyCertDocs} \cup
    {CodecCall("parseRegisterThingResponse", d, 0, 0, 0, 0) : d \in CodecThingDocs} \cup
    {CodecCall("generateRegisterThingRequest", ZeroDoc, t, n, b, l) :
        t \in CodecTokenLengths, n \in CodecSerialLengths, b \in CodecBufferLengths,
        l \in {0, NETWORK_BUFFER_SIZE}}

codecFrame ==
    UNCHANGED <<returnStatus, connectionEstablished, provisioned, responseStatus,
                eventCallbackError, nvs, brokerVars, deleteVars, deltaVars>>

\* parseKeyCertResponse( payloadBuffer, payloadLength, certificate,
\* &certificateLength, ... ) with the buffers as the loop sets them up.
CodecParseKeyCert ==
    /\ pc = "Call"
    /\ h.call = "parseKeyCertResponse"
    /\ LET res == parseKeyCertResponse(payloadBuffer, bundle) IN
        /\ bundle' = res.bufs
        /\ h' = [h EXCEPT !.returned = TRUE, !.ok = res.ok]
    /\ pc' = "Returned"
    /\ UNCHANGED <<payloadBuffer, thingName>>
    /\ codecFrame

\* parseRegisterThingResponse( payloadBuffer, payloadLength, thingName,
\* &thingNameLength )
CodecParseRegisterThing ==
    /\ pc = "Call"
    /\ h.call = "parseRegisterThingResponse"
    /\ LET res == parseRegisterThingResponse(payloadBuffer, thingName) IN
        /\ thingName' = res.buf
        /\ h' = [h EXCEPT !.returned = TRUE, !.ok = res.ok]
    /\ pc' = "Returned"
    /\ UNCHANGED <<payloadBuffer, bundle>>
    /\ codecFrame

\* generateRegisterThingRequest( payloadBuffer, bufferLength, token,
\* tokenLength, serial, serialLength, &payloadLength ), and the far end's
\* decoding of what the buffer then holds.
CodecGenerate ==
    /\ pc = "Call"
    /\ h.call = "generateRegisterThingRequest"
    /\ LET res == generateRegisterThingRequest(h.bufferLength, h.token, h.serial) IN
        /\ payloadBuffer' = IF res.items = <<>> THEN payloadBuffer ELSE RequestDoc(res)
        /\ h' = [h EXCEPT !.returned = TRUE, !.ok = res.ok,
                          !.length = IF res.stored THEN res.length ELSE @,
                          !.decoded = CborDecode(res.items)]
    /\ pc' = "Returned"
    /\ UNCHANGED <<bundle, thingName>>
    /\ codecFrame

InitCodec ==
    /\ InitCommon
    /\ pc = "Call"
    /\ nvs = [k \in NvsKeys |-> "absent"]
    /\ provisioned = FALSE
    /\ h \in CodecCalls
    /\ payloadBuffer = h.doc

NextCodec ==
    \/ CodecParseKeyCert
    \/ CodecParseRegisterThing
    \/ CodecGenerate

SpecCodec == InitCodec /\ [][NextCodec]_vars

(* ------------------- waitForResponse, one call each -------------------- *)

\* Packets one process loop hands to the callback.
MaxWaitPackets == 2

\* What the process loop of a claim session may receive: acknowledgements,
\* publishes on the four response topics, and a publish on another topic.
WaitPackets ==
    {AckPacket} \cup PublishPackets(FleetProvisioningTopics \cup {SHADOW_TOPIC_STR_UPDATE_DELTA})

\* waitForResponse(): responseStatus = ResponseNotReceived, then the process
\* loop, which runs provisioningPublishCallback on each packet of h.inb.
WaitForResponseCall ==
    /\ pc = "Wait"
    /\ Pump(ResponseNotReceived, h.inb)
    /\ returnStatus' = waitForResponse(responseStatus')
    /\ h' = [h EXCEPT !.returned = TRUE]
    /\ pc' = "Waited"
    /\ UNCHANGED <<connectionEstablished, provisioned, credVars, brokerVars,
                   deleteVars, deltaVars>>

\* A claim session with one request published and awaiting its response, a
\* response buffer left by an earlier step, and the packets the next process
\* loop will deliver.
InitWait ==
    /\ returnStatus = EXIT_SUCCESS
    /\ connectionEstablished = TRUE
    /\ responseStatus \in {ResponseNotReceived, ResponseAccepted, ResponseRejected}
    /\ eventCallbackError = FALSE
    /\ bundle = InitBundle
    /\ thingName = InitThingName
    /\ session = "claim"
    /\ subscribed = FleetProvisioningTopics
    /\ requested \in {{t} : t \in ProvisioningRequests}
    /\ deleteResponseReceived = FALSE
    /\ shadowDeleted = FALSE
    /\ stateChanged = FALSE
    /\ currentPowerOnState = 0
    /\ currentVersion = 0
    /\ clientToken = 0
    /\ pc = "Wait"
    /\ nvs = [k \in NvsKeys |-> "absent"]
    /\ provisioned = FALSE
    /\ payloadBuffer \in {ZeroDoc, FullKeyCertDoc}
    /\ h \in {[inb |-> inb, before |-> payloadBuffer, returned |-> FALSE] :
                inb \in SeqsUpTo(WaitPackets, MaxWaitPackets)}

NextWait == WaitForResponseCall

SpecWait == InitWait /\ [][NextWait]_vars

(* ----------------- the shadow update documents, formatted -------------- *)

\* Clock samples tried: MaxClockSamples steps across several periods of the
\* client token, and the values around its digit counts.
MaxClockSamples == 60

ClockSamples ==
    {i * 123457 : i \in 0..MaxClockSamples}
    \cup {0, 9, 10, 99999, 100000, 999999, 1000000, 1000009, 1099999, 2147483647}

\* The pieces of a format string: n literal characters, or a conversion
\* specification spelled with n characters printing at least width digits.
Literal(n) == [kind |-> "literal", n |-> n, width |-> 0]
Conversion(n, width) == [kind |-> "conversion", n |-> n, width |-> width]

\* "{" "\"state\":{" "\"desired\":{" "\"powerOn\":%01d" "}" "},"
\* "\"clientToken\":\"%06lu\"" "}"
SHADOW_DESIRED_JSON ==
    <<Literal(31), Conversion(4, 1), Literal(18), Conversion(5, 6), Literal(2)>>
SHADOW_REPORTED_JSON ==
    <<Literal(32), Conversion(4, 1), Literal(18), Conversion(5, 6), Literal(2)>>

\* sizeof of a string literal: its characters and the terminator.
RECURSIVE FormatChars(_, _)
FormatChars(fmt, i) ==
    IF i > Len(fmt) THEN 0 ELSE fmt[i].n + FormatChars(fmt, i + 1)
sizeof(fmt) == FormatChars(fmt, 1) + 1

SHADOW_DESIRED_JSON_LENGTH == sizeof(SHADOW_DESIRED_JSON) - 3
SHADOW_REPORTED_JSON_LENGTH == sizeof(SHADOW_REPORTED_JSON) - 3

\* The characters a conversion of a decimal number prints: its digits, a
\* sign for a negative int, zeros up to the width.
RECURSIVE DecimalDigits(_)
DecimalDigits(n) == IF n < 10 THEN 1 ELSE 1 + DecimalDigits(n \div 10)
ConversionChars(width, v) ==
    LET printed == IF v < 0 THEN 1 + DecimalDigits(0 - v) ELSE DecimalDigits(v)
    IN  IF printed < width THEN width ELSE printed

\* snprintf( str, size, fmt, args ): wanted is its return value, written the
\* characters stored before the terminator.
RECURSIVE FormattedChars(_, _, _)
FormattedChars(fmt, i, args) ==
    IF i > Len(fmt) THEN 0
    ELSE IF fmt[i].kind = "literal"
         THEN fmt[i].n + FormattedChars(fmt, i + 1, args)
         ELSE ConversionChars(fmt[i].width, Head(args))
                + FormattedChars(fmt, i + 1, Tail(args))
snprintf(size, fmt, args) ==
    LET wanted == FormattedChars(fmt, 1, args) IN
    [wanted |-> wanted,
     written |-> IF size = 0 THEN 0
                 ELSE IF wanted < size THEN wanted ELSE size - 1]

\* The clock sample taken as a client token, unreduced.
ClockSample(clock) == clock

\* clientToken = ( Clock_GetTimeMs() % 1000000 )
NewClientToken(clock) == clock % 1000000

formatFrame ==
    UNCHANGED <<returnStatus, connectionEstablished, provisioned, cbVars,
                credVars, brokerVars, deleteVars, stateChanged,
                currentPowerOnState, currentVersion>>

\* snprintf( updateDocument, SHADOW_DESIRED_JSON_LENGTH + 1,
\*           SHADOW_DESIRED_JSON, ( int ) 1, ( long unsigned ) clientToken )
FormatDesired ==
    /\ pc = "Format"
    /\ h.document = "desired"
    /\ clientToken' = NewClientToken(h.clock)
    /\ LET res == snprintf(SHADOW_DESIRED_JSON_LENGTH + 1, SHADOW_DESIRED_JSON,
                           <<1, clientToken'>>) IN
        h' = [h EXCEPT !.wanted = res.wanted, !.written = res.written]
    /\ pc' = "Formatted"
    /\ formatFrame

\* snprintf( updateDocument, SHADOW_REPORTED_JSON_LENGTH + 1,
\*           SHADOW_REPORTED_JSON, ( int ) currentPowerOnState,
\*           ( long unsigned ) clientToken )
FormatReported ==
    /\ pc = "Format"
    /\ h.document = "reported"
    /\ clientToken' = NewClientToken(h.clock)
    /\ LET res == snprintf(SHADOW_REPORTED_JSON_LENGTH + 1, SHADOW_REPORTED_JSON,
                           <<currentPowerOnState, clientToken'>>) IN
        h' = [h EXCEPT !.wanted = res.wanted, !.written = res.written]
    /\ pc' = "Formatted"
    /\ formatFrame

\* The provisioned session of the NVS variant at one of the two statements
\* that format an update document, with the clock at some sample.
InitFormat ==
    /\ InitCommon
    /\ pc = "Format"
    /\ nvs = [k \in NvsKeys |-> "response"]
    /\ provisioned = TRUE
    /\ payloadBuffer = ZeroDoc
    /\ h \in {[document |-> d, clock |-> c, wanted |-> 0, written |-> 0] :
                d \in {"desired", "reported"}, c \in ClockSamples}

NextFormat ==
    \/ FormatDesired
    \/ FormatReported

SpecFormat == InitFormat /\ [][NextFormat]_vars

(* ------------------------------ properties ---------------------------- *)

\* C1: credentials are written to persistent storage only after the
\* RegisterThing response was accepted and its thing name parsed: in every
\* run, an NVS entry is written only if parseRegisterThingResponse has read a
\* thing name from an accepted RegisterThing response of that run.
C1_StoredOnlyAfterRegistration ==
    h.nvsWritten => h.thingNameParsed

\* C2: transport errors abort the attempt: once a connect, subscribe or
\* publish call has returned failure, no further subscribe or publish call is
\* made in that attempt.
C2_NoCallAfterTransportFailure ==
    ~h.callAfterFailure

\* C3: aws_iot_demo_main of the NVS variant returns EXIT_SUCCESS only if no
\* executed step of the run failed, the confirmation of the shadow delete
\* included.
C3_SuccessOnlyAfterFullWorkflow ==
    (pc = "Returned" /\ returnStatus = EXIT_SUCCESS) => ~h.stepFailed

\* C4: the demo loop is bounded: aws_iot_demo_main never begins more than
\* FLEET_PROV_MAX_DEMO_LOOP_COUNT iterations.
C4_AttemptsBounded ==
    h.demoRunCount <= FLEET_PROV_MAX_DEMO_LOOP_COUNT

\* C5: an iteration of the NVS variant that ends in failure with attempts
\* remaining is followed by another iteration: aws_iot_demo_main returns a
\* failure status only after FLEET_PROV_MAX_DEMO_LOOP_COUNT iterations.
C5_FailedIterationIsRetried ==
    (pc = "Returned" /\ returnStatus # EXIT_SUCCESS)
        => h.demoRunCount >= FLEET_PROV_MAX_DEMO_LOOP_COUNT

\* C6: when waitForResponse ends with responseStatus still
\* ResponseNotReceived, parseRegisterThingResponse is not called and the
\* attempt does not end with a success status.
C6_TimeoutAbortsAttempt ==
    h.waitStatus = ResponseNotReceived
        => /\ ~h.thingParseCalled
           /\ ~(pc = "Returned" /\ returnStatus = EXIT_SUCCESS)

\* C7: when the wait for the RegisterThing response ends with a rejected
\* message, after an accepted CreateKeysAndCertificate response with a full
\* bundle, the thing name is not parsed, the device is not marked provisioned
\* and no connection with the provisioned credentials is attempted.
C7_RegisterRejectedAbortsAttempt ==
    (h.waitStatus = ResponseRejected /\ \A k \in DOMAIN bundle : bundle[k].src = "response")
        => /\ ~h.thingParseCalled
           /\ ~h.markedProvisioned
           /\ ~h.provConnectTried

\* C10: the desired state is published only after the shadow delete was
\* confirmed, and a run in which the delete was not confirmed returns a
\* failure status.
C10_DesiredOnlyAfterDeleteConfirmed ==
    /\ h.desiredPublished => (deleteResponseReceived /\ shadowDeleted)
    /\ (pc = "Returned" /\ ~(deleteResponseReceived /\ shadowDeleted))
            => returnStatus # EXIT_SUCCESS

\* C8: an /update/delta message whose version is not greater than the
\* highest version applied before it leaves currentPowerOnState and
\* stateChanged as they were.
C8_StaleDeltaDiscarded ==
    (/\ h.last.type = "PUBLISH"
     /\ h.last.topic = SHADOW_TOPIC_STR_UPDATE_DELTA
     /\ h.last.payload.version.kind = "number"
     /\ h.pre.highestApplied > 0
     /\ h.last.payload.version.n <= h.pre.highestApplied)
        => /\ currentPowerOnState = h.pre.currentPowerOnState
           /\ stateChanged = h.pre.stateChanged

C11_OnlyMatchingTokenConfirms ==
    (/\ h.last.type = "PUBLISH"
     /\ h.last.topic = SHADOW_TOPIC_STR_UPDATE_ACC
     /\ h.last.payload.valid
     /\ h.last.payload.clientToken # Absent)
        => /\ (h.log = "accepted") <=> (h.last.payload.clientToken = Num(clientToken))
           /\ h.last.payload.clientToken # Num(clientToken)
                => /\ eventCallbackError = h.pre.eventCallbackError
                   /\ stateChanged = h.pre.stateChanged
                   /\ currentPowerOnState = h.pre.currentPowerOnState

\* C12: no partial credential bundle is persisted: the NVS namespace holds
\* either no entry written by this run, or all four entries, each written
\* from the fields of the response.
C12_NoPartialBundleStored ==
    LET written == {k \in NvsKeys : nvs[k] \in {"response", "overrun", "uninit"}}
    IN  \/ written = {}
        \/ /\ written = NvsKeys
           /\ \A k \in NvsKeys : nvs[k] = "response"

\* The fields of the response a returned parseKeyCertResponse call was given
\* that are missing from it.
MissingFields == {k \in DOMAIN bundle : h.doc.f[k] = NoField}

\* C13: for a response in which one of the four fields is missing,
\* parseKeyCertResponse returns false and the buffer of the missing field is
\* as it was before the call.
C13_MissingFieldFails ==
    (pc = "Returned" /\ h.call = "parseKeyCertResponse" /\ MissingFields # {})
        => /\ ~h.ok
           /\ \A k \in MissingFields : bundle[k] = InitBundle[k]

\* A response that is a map holding all four fields as text strings, each
\* within the capacity of its buffer.
ValidKeyCertDoc(doc) ==
    /\ doc.wellFormed
    /\ \A k \in DOMAIN InitBundle :
        doc.f[k].type = "text" /\ doc.f[k].len <= BufferCapacity(k)

\* Buffer and length variable hold exactly the bytes of the field.
HoldsField(buf, field) ==
    /\ buf.src = "response"
    /\ buf.tag = field.tag
    /\ buf.len = field.len
    /\ buf.length = field.len

\* parseKeyCertResponse has returned from a valid response.
ValidKeyCertParsed ==
    pc = "Returned" /\ h.call = "parseKeyCertResponse" /\ ValidKeyCertDoc(h.doc)

\* C14 as stated: for a valid response within the capacities,
\* parseKeyCertResponse returns true, every buffer and length holds exactly
\* its field, and the bundle is not empty.
C14_ValidDocGivesNonEmptyBundle ==
    ValidKeyCertParsed
        => /\ h.ok
           /\ \A k \in DOMAIN bundle : HoldsField(bundle[k], h.doc.f[k])
           /\ \E k \in DOMAIN bundle : bundle[k].len > 0

\* C14, amended: for a valid response within the capacities,
\* parseKeyCertResponse returns true and every buffer and length holds
\* exactly its field; the bundle is not empty when some field of the
\* response is not empty.
C14_ValidDocGivesExactBundle ==
    ValidKeyCertParsed
        => /\ h.ok
           /\ \A k \in DOMAIN bundle : HoldsField(bundle[k], h.doc.f[k])
           /\ (\E k \in DOMAIN bundle : h.doc.f[k].len > 0)
                => (\E k \in DOMAIN bundle : bundle[k].len > 0)

\* A valid response whose fields fill their buffers to the last byte has
\* been parsed.
C14_Witness ==
    /\ ValidKeyCertParsed
    /\ \A k \in DOMAIN bundle : h.doc.f[k].len = BufferCapacity(k)

\* generateRegisterThingRequest has returned true for a token and a serial
\* number within the sizes of the demo.
RequestGenerated ==
    /\ pc = "Returned"
    /\ h.call = "generateRegisterThingRequest"
    /\ h.ok
    /\ h.token.len <= OWNERSHIP_TOKEN_BUFFER_LENGTH
    /\ h.serial.len <= MaxSerialLength

\* C15: decoding the document generateRegisterThingRequest produced yields a
\* map of exactly two entries, certificateOwnershipToken the token and
\* parameters the one-entry map SerialNumber: serial, with the bytes of both
\* as they were given.
C15_RegisterRequestRoundTrip ==
    RequestGenerated
        => /\ h.decoded.wellFormed
           /\ h.decoded.entries = 2
           /\ h.decoded.f["certificateOwnershipToken"]
                = TextField(h.token.len, h.token.tag)
           /\ h.decoded.f["parameters"]
                = MapField(1, "SerialNumber", h.serial.len, h.serial.tag)

\* A request for the longest token and the longest serial number was
\* generated into the network buffer.
C15_Witness ==
    /\ RequestGenerated
    /\ h.token.len = OWNERSHIP_TOKEN_BUFFER_LENGTH
    /\ h.serial.len = MaxSerialLength
    /\ h.bufferLength = NETWORK_BUFFER_SIZE

\* C16: when generateRegisterThingRequest returns false, no RegisterThing
\* request is published in that iteration.
C16_GenerateFailureIsFatal ==
    h.generateFailed => ~h.registerPublished

\* Whether a packet is a publish on one of the two accepted topics.
IsAccepted(pkt) ==
    /\ pkt.type = "PUBLISH"
    /\ pkt.topic \in {FP_CBOR_CREATE_KEYS_ACCEPTED_TOPIC, FP_CBOR_REGISTER_ACCEPTED_TOPIC}

\* The positions of the accepted messages among the packets delivered.
AcceptedAt == {i \in 1..Len(h.inb) : IsAccepted(h.inb[i])}

\* C17: when waitForResponse has returned with responseStatus ==
\* ResponseAccepted, payloadBuffer holds the payload of the accepted message
\* that was delivered last.
C17_BufferHoldsLastAccepted ==
    (pc = "Waited" /\ responseStatus = ResponseAccepted)
        => /\ AcceptedAt # {}
           /\ \E i \in AcceptedAt :
                /\ \A j \in AcceptedAt : j <= i
                /\ payloadBuffer = h.inb[i].payload

\* waitForResponse has returned ResponseAccepted after two accepted messages
\* with different payloads, neither being what the buffer held before.
C17_Witness ==
    /\ pc = "Waited"
    /\ responseStatus = ResponseAccepted
    /\ Len(h.inb) = 2
    /\ AcceptedAt = {1, 2}
    /\ h.inb[1].payload # h.inb[2].payload
    /\ h.inb[2].payload # h.before

\* C18: the device is marked provisioned only after, in the same run, a
\* CreateKeysAndCertificate accepted response gave a full credential bundle
\* and a thing name was read from a RegisterThing accepted response.
C18_ProvisionedOnlyAfterRegistration ==
    h.markedProvisioned => (h.keyCertParsed /\ h.thingNameParsed)

\* What app_main of the next boot finds in a store: both entries it reads.
CredentialSetIn(store) ==
    store["aws_cert"] # "absent" /\ store["aws_key"] # "absent"

\* C19: at every point of a run at which a reset can happen, the entries
\* written by the run make the next boot's check in app_main succeed only
\* if the wait for the RegisterThing response ended with an accepted
\* response.
C19_NoCredentialSetBeforeRegistration ==
    (h.nvsWritten /\ CredentialSetIn(nvs))
        => h.waitStatus = ResponseAccepted

\* The iteration has passed the connection with the claim credentials.
PastClaimConnect == h.demoRunCount >= 1 /\ pc # "EstablishClaim"

\* C20: when both aws_cert and aws_key were in NVS at boot, the run makes no
\* connection with the claim credentials and publishes no
\* CreateKeysAndCertificate or RegisterThing request; when one of them was
\* missing, the run begins with the connection with the claim credentials.
C20_ProvisioningOnlyWhenNotProvisioned ==
    /\ CredentialSetIn(h.bootStore)
        => (~h.claimConnectTried /\ ~h.keysPublished /\ ~h.registerPublished)
    /\ (~CredentialSetIn(h.bootStore) /\ PastClaimConnect)
        => h.claimConnectTried

\* A device that booted with both entries has connected with the
\* provisioned credentials and reached the end of the run.
C20_Witness ==
    /\ CredentialSetIn(h.bootStore)
    /\ h.provConnectTried
    /\ pc = "Returned"

\* The two response-topic pairs, in the CBOR and the JSON form.
KeyCertificateResponseTopics ==
    {FP_CBOR_CREATE_KEYS_ACCEPTED_TOPIC, FP_CBOR_CREATE_KEYS_REJECTED_TOPIC,
     FP_JSON_CREATE_KEYS_ACCEPTED_TOPIC, FP_JSON_CREATE_KEYS_REJECTED_TOPIC}
RegisterThingResponseTopics ==
    {FP_CBOR_REGISTER_ACCEPTED_TOPIC, FP_CBOR_REGISTER_REJECTED_TOPIC,
     FP_JSON_REGISTER_ACCEPTED_TOPIC, FP_JSON_REGISTER_REJECTED_TOPIC}

\* C21: at every point of the workflow the device is subscribed to topics of
\* at most one of the two response-topic pairs.
C21_AtMostOnePairSubscribed ==
    ~ /\ subscribed \cap KeyCertificateResponseTopics # {}
      /\ subscribed \cap RegisterThingResponseTopics # {}

\* C22: every claim session that was established is followed by a call of
\* DisconnectMqttSession before the next session is established and before
\* aws_iot_demo_main returns.
C22_ClaimSessionAlwaysDisconnected ==
    /\ ~h.claimSessionLeaked
    /\ pc = "Returned" => ~h.claimSessionOpen

\* C23: a RegisterThing request is not published while the
\* CreateKeysAndCertificate request of the same iteration has had no
\* response classified and no waitForResponse call has timed out for it.
C23_OnePendingExchange ==
    ~h.pendingAtPublish

\* C24: when parseKeyCertResponse has returned false, nothing is written to
\* NVS, generateRegisterThingRequest is not called and no RegisterThing
\* request is published in that iteration.
C24_KeyCertDecodeErrorAborts ==
    h.keyCertParse = "false"
        => (~h.nvsWritten /\ ~h.generateCalled /\ ~h.registerPublished)

\* C25: the bytes parseKeyCertResponse is given are the payload of an
\* accepted response copied by the callback, not what payloadBuffer held
\* before any response arrived.
C25_KeyCertParsedFromResponse ==
    h.keyCertSource \in {"none", "broker"}

\* C27: a RegisterThing response that the callback classified during the
\* process loop of the publish is reported by the waitForResponse call that
\* follows, not as ResponseNotReceived.
C27_ResponseDuringPublishIsKept ==
    (pc = "ParseRegister" /\ h.waited /\ h.answeredInPublish)
        => h.waitStatus # ResponseNotReceived

\* The topics the request awaited by the waitForResponse call is answered on.
PendingResponseTopics == UNION {ResponseTopics(t) : t \in requested}

\* The positions of the messages of the other exchange among the packets
\* delivered.
OtherExchangeAt ==
    {i \in 1..Len(h.inb) :
        /\ h.inb[i].type = "PUBLISH"
        /\ h.inb[i].topic \in FleetProvisioningTopics \ PendingResponseTopics}

\* The positions of the responses to the awaited request.
PendingResponseAt ==
    {i \in 1..Len(h.inb) :
        /\ h.inb[i].type = "PUBLISH"
        /\ h.inb[i].topic \in PendingResponseTopics}

\* C26: a message on a topic of the exchange that is not awaited leaves
\* responseStatus and payloadBuffer as they were: when waitForResponse was
\* delivered no response to the awaited request, it returns with
\* responseStatus == ResponseNotReceived and payloadBuffer unchanged.
C26_OtherExchangeIgnored ==
    (pc = "Waited" /\ PendingResponseAt = {})
        => /\ responseStatus = ResponseNotReceived
           /\ payloadBuffer = h.before

\* The positions of the fleet provisioning responses among the packets
\* delivered.
ResponseAt ==
    {i \in 1..Len(h.inb) :
        /\ h.inb[i].type = "PUBLISH"
        /\ h.inb[i].topic \in FleetProvisioningTopics}

\* C28: the outcome is set once in a process loop run: when waitForResponse
\* has returned after at least one response, responseStatus and payloadBuffer
\* are what the first response delivered set them to.
C28_OutcomeSetOnce ==
    (pc = "Waited" /\ ResponseAt # {})
        => \E i \in ResponseAt :
            /\ \A j \in ResponseAt : i <= j
            /\ responseStatus = IF IsAccepted(h.inb[i]) THEN ResponseAccepted
                                                        ELSE ResponseRejected
            /\ payloadBuffer = IF IsAccepted(h.inb[i]) THEN h.inb[i].payload
                                                       ELSE h.before

\* C29: parseRegisterThingResponse returns true exactly for a response that
\* is a map with a text "thingName" no longer than the buffer, and the buffer
\* and its length then hold the thing name; for a missing "thingName", one of
\* another type or one that is too long it returns false.
C29_ThingNameParseResult ==
    (pc = "Returned" /\ h.call = "parseRegisterThingResponse")
        => /\ h.ok <=> /\ h.doc.wellFormed
                       /\ h.doc.f["thingName"].type = "text"
                       /\ h.doc.f["thingName"].len <= MAX_THING_NAME_LENGTH
           /\ h.ok => HoldsField(thingName, h.doc.f["thingName"])

\* C30: the callback copies the accepted payload while the memory holding it
\* is still valid: payloadBuffer never holds bytes read from memory that was
\* released before the copy.
C30_PayloadCopiedWhileValid ==
    payloadBuffer.origin # "freed"

ExpectedJsonLength ==
    IF h.document = "desired" THEN SHADOW_DESIRED_JSON_LENGTH
                              ELSE SHADOW_REPORTED_JSON_LENGTH

\* C32: every desired and reported update document has the pre-calculated
\* size: snprintf produces exactly SHADOW_DESIRED_JSON_LENGTH /
\* SHADOW_REPORTED_JSON_LENGTH characters, none cut off, and the client
\* token is below 1000000.
C32_DocumentHasPrecalculatedSize ==
    pc = "Formatted"
        => /\ clientToken \in 0..999999
           /\ h.wanted = ExpectedJsonLength
           /\ h.written = h.wanted

\* A reported document was formatted from a clock sample beyond one period
\* of the token, giving a token that needs leading zeros.
C32_Witness ==
    /\ pc = "Formatted"
    /\ h.document = "reported"
    /\ h.clock > 1000000
    /\ clientToken < 100000

\* C33: a run of aws_iot_demo_main in which eventCallback has set
\* eventCallbackError does not return EXIT_SUCCESS.
C33_CallbackErrorFailsTheRun ==
    (pc = "Returned" /\ eventCallbackError) => returnStatus # EXIT_SUCCESS

\* parseKeyCertResponse returned true in this iteration and an entry is still
\* absent from NVS: nvs_open or the nvs_set_str of that entry failed.
NvsSaveFailed ==
    /\ h.keyCertParse = "true"
    /\ \E k \in NvsKeys : nvs[k] = "absent"

C36_VersionIsHighestApplied ==
    currentVersion = h.highestApplied

\* C37: aws_iot_demo_main of the PKCS #11 variant returns EXIT_SUCCESS only
\* if, in its last iteration, the PKCS #11 session was initialised, the claim
\* credentials were loaded and loadCertificate imported the certificate; and
\* the claim connection is attempted only with loaded claim credentials.
C37_SuccessNeedsPkcs11Steps ==
    /\ (pc = "Returned" /\ returnStatus = EXIT_SUCCESS)
            => (h.pkcs11Initialised /\ h.claimLoaded /\ h.certLoaded)
    /\ h.claimConnectTried => h.claimLoaded

\* C38: provisioningPublishCallback leaves payloadBuffer as it was for every
\* packet that is not an accepted response, and leaves responseStatus as it
\* was for a packet that is no publish or whose topic is no fleet
\* provisioning topic: after a process loop without an accepted message the
\* buffer is unchanged, and after one without any response responseStatus is
\* still the ResponseNotReceived that waitForResponse set.
C38_OnlyAcceptedChangesBuffer ==
    pc = "Waited"
        => /\ AcceptedAt = {} => payloadBuffer = h.before
           /\ ResponseAt = {} => responseStatus = ResponseNotReceived

\* The process loop delivered a rejected response and a publish on a topic
\* that is no fleet provisioning topic, to a buffer holding an earlier
\* response.
C38_Witness ==
    /\ pc = "Waited"
    /\ Len(h.inb) = 2
    /\ h.inb[1].type = "PUBLISH"
    /\ h.inb[1].topic = FP_CBOR_REGISTER_REJECTED_TOPIC
    /\ h.inb[2].type = "PUBLISH"
    /\ h.inb[2].topic = SHADOW_TOPIC_STR_UPDATE_DELTA
    /\ h.before = FullKeyCertDoc
    /\ payloadBuffer = FullKeyCertDoc
    /\ responseStatus = ResponseRejected

====
